---- MODULE Spec2Model ----
(***************************************************************************)
(* A model of the Geospatial Common Data Library API: the request-date     *)
(* handling (src/src/api_core/data_request.py, src/src/data_request.py),   *)
(* the construction of a DataRequest and the packaging of its output       *)
(* (src/src/api_core/data_request_output.py).                              *)
(*                                                                         *)
(* Strings are sequences of one-character strings, so that len(), split()  *)
(* and int() are computed the way Python computes them.  A Python call     *)
(* either returns a value or raises: every modelled call yields a record   *)
(* whose field exc is "none" on a normal return and the exception class    *)
(* otherwise, with msg naming the message of the raise statement.          *)
(***************************************************************************)
EXTENDS Integers, Sequences, FiniteSets, TLC

VARIABLES
    pc,          \* "call": arguments bound, body not run; "returned"; "raised"
    op,          \* the method the call is to
    date_start,  \* argument of _parseDates / _parse_dates
    date_end,    \* argument of _parseDates / _parse_dates
    years,       \* argument of _parseDates
    months,      \* argument of _parseDates
    days,        \* argument of _parseDates
    dates,       \* returned list of RequestDate (self.dates)
    date_grain,  \* returned grain (self.date_grain)
    legacy,      \* returned nested dict of the first-generation _parse_dates
    rangestr,    \* argument of _parseRangeStr
    maxval,      \* argument of _parseRangeStr
    rangeval,    \* list returned by _parseRangeStr
    exc,         \* class of the exception the call raised, "none" if it returned
    msg,         \* message of the exception
    exc_arg,     \* the value the message of the exception is formatted with
    \* DataRequest.__init__: the arguments, the catalog, the object's fields.
    dsc,             \* the dataset catalog, dataset id -> dataset object
    dsvars,          \* argument: the dict dataset id -> variables, in its order
    grain_method,    \* argument
    subset_geom,     \* argument: the class of the subset geometry, or None
    target_crs,      \* argument
    target_resolution, \* argument
    ri_method,       \* argument
    request_type,    \* argument
    output_format,   \* argument
    req_metadata,    \* argument: the caller's key/value mapping
    self,            \* the fields __init__ has assigned so far
    md_queries,      \* ids of the datasets whose getMetadata() was called
    built,           \* metadata of the requests constructed before this one
    \* DataRequestOutput.writeRequestedData: the output directory and the calls.
    fs_dirs,         \* names of the working directories under output_dir
    fs_files,        \* the files in those directories, path -> content
    fs_zips,         \* the ZIP archives under output_dir, name -> archive
    calls            \* the writeRequestedData calls in flight, each one's locals

parserVars == <<pc, op, date_start, date_end, years, months, days, dates,
                date_grain, legacy, rangestr, maxval, rangeval, exc, msg>>

requestArgs == <<dsvars, grain_method, subset_geom, target_crs,
                 target_resolution, ri_method, request_type, output_format>>

requestVars == <<exc_arg, dsc, requestArgs, req_metadata, self, md_queries, built>>

outputVars == <<fs_dirs, fs_files, fs_zips, calls>>

vars == <<parserVars, requestVars, outputVars>>

-----------------------------------------------------------------------------
(* Bounds of the model.                                                    *)

\* Number of consecutive calendar years, from 2019 on, the date strings span.
NumYears == 2
\* Largest START / END / INCREMENT / maxval number written in a range string.
MaxRangeNum == 10

-----------------------------------------------------------------------------
(* Date granularity constants and Python values.                           *)

NONE == 0
ANNUAL == 1
MONTHLY == 2
DAILY == 3

\* Python's None in an integer slot (RequestDate.month, RequestDate.day,
\* maxval): a value no month, day or maxval of the model takes.
None == 0 - 1

\* Python's None in a string slot: distinct from every character sequence.
NoneStr == <<"None">>

RequestDate(year, month, day) == [year |-> year, month |-> month, day |-> day]

\* A normal return carrying no exception, and a raise.
NoExc == "none"

-----------------------------------------------------------------------------
(* Python built-ins: str.split, int().                                     *)

DigitChars == <<"0", "1", "2", "3", "4", "5", "6", "7", "8", "9">>

IsDigit(c) == \E i \in 1..10 : DigitChars[i] = c

DigitVal(c) == (CHOOSE i \in 1..10 : DigitChars[i] = c) - 1

\* s.split(sep) for a one-character separator: the list of the maximal runs
\* between separators, empty runs included; never an empty list.
RECURSIVE split(_, _)
split(s, sep) ==
    IF s = <<>> THEN << <<>> >>
    ELSE LET rest == split(Tail(s), sep) IN
         IF Head(s) = sep THEN << <<>> >> \o rest
         ELSE << <<Head(s)>> \o Head(rest) >> \o Tail(rest)

\* sep in s
contains(s, sep) == \E i \in 1..Len(s) : s[i] = sep

\* Value of a non-empty digit string, most significant digit first.
RECURSIVE digitsValue(_, _)
digitsValue(s, acc) ==
    IF s = <<>> THEN acc ELSE digitsValue(Tail(s), acc * 10 + DigitVal(Head(s)))

\* int(s) for a string over the characters the model writes (digits, '-',
\* '+', letters): an optional sign followed by at least one digit, anything
\* else raises ValueError.
int(s) ==
    LET signed == s # <<>> /\ Head(s) \in {"+", "-"}
        body == IF signed THEN Tail(s) ELSE s
    IN  IF body = <<>> \/ \E i \in 1..Len(body) : ~IsDigit(body[i])
        THEN [exc |-> "ValueError", msg |-> "invalid literal for int()", val |-> 0]
        ELSE [exc |-> NoExc, msg |-> "",
              val |-> IF signed /\ Head(s) = "-" THEN 0 - digitsValue(body, 0)
                      ELSE digitsValue(body, 0)]

\* list(range(start, stop, step)); step = 0 raises ValueError.
range(start, stop, step) ==
    IF step = 0
    THEN [exc |-> "ValueError", msg |-> "range() arg 3 must not be zero", val |-> <<>>]
    ELSE LET n == IF step > 0
                  THEN (IF stop > start THEN (stop - start + step - 1) \div step ELSE 0)
                  ELSE (IF stop < start THEN (start - stop - step - 1) \div (0 - step) ELSE 0)
         IN  [exc |-> NoExc, msg |-> "", val |-> [i \in 1..n |-> start + (i - 1) * step]]

-----------------------------------------------------------------------------
(* datetime.date, as the standard library computes it (proleptic Gregorian *)
(* calendar, ordinal 1 = 0001-01-01, years 1..9999).                       *)

is_leap(y) == y % 4 = 0 /\ (y % 100 # 0 \/ y % 400 = 0)

days_in_month(y, m) ==
    IF m = 2 THEN (IF is_leap(y) THEN 29 ELSE 28)
    ELSE IF m \in {4, 6, 9, 11} THEN 30 ELSE 31

days_before_year(y) ==
    (y - 1) * 365 + (y - 1) \div 4 - (y - 1) \div 100 + (y - 1) \div 400

\* Days of the year y before the first of month m.
days_before_month(y, m) ==
    <<0, 31, 59, 90, 120, 151, 181, 212, 243, 273, 304, 334>>[m]
    + (IF m > 2 /\ is_leap(y) THEN 1 ELSE 0)

\* date.toordinal()
toordinal(d) == days_before_year(d.year) + days_before_month(d.year, d.month) + d.day

\* date.fromordinal(n), for 1 <= n <= date.max.toordinal(): the 400-, 100-,
\* 4- and 1-year cycles, then the month estimated as (n + 50) >> 5 and
\* corrected downwards when it overshoots.
fromordinal(n) ==
    LET n0 == n - 1
        n400 == n0 \div 146097
        r400 == n0 % 146097
        n100 == r400 \div 36524
        r100 == r400 % 36524
        n4 == r100 \div 1461
        r4 == r100 % 1461
        n1 == r4 \div 365
        r1 == r4 % 365
        year == n400 * 400 + 1 + n100 * 100 + n4 * 4 + n1
        guess == (r1 + 50) \div 32
        month == IF days_before_month(year, guess) > r1 THEN guess - 1 ELSE guess
    IN  IF n1 = 4 \/ n100 = 4 THEN [year |-> year - 1, month |-> 12, day |-> 31]
        ELSE [year |-> year, month |-> month,
              day |-> r1 - days_before_month(year, month) + 1]

\* dt.date(year, month, day): ValueError unless it is a day of the calendar.
date(y, m, d) ==
    IF y < 1 \/ y > 9999
    THEN [exc |-> "ValueError", msg |-> "year is out of range", val |-> RequestDate(1, 1, 1)]
    ELSE IF m < 1 \/ m > 12
    THEN [exc |-> "ValueError", msg |-> "month must be in 1..12", val |-> RequestDate(1, 1, 1)]
    ELSE IF d < 1 \/ d > days_in_month(y, m)
    THEN [exc |-> "ValueError", msg |-> "day is out of range for month", val |-> RequestDate(1, 1, 1)]
    ELSE [exc |-> NoExc, msg |-> "", val |-> RequestDate(y, m, d)]

\* d + dt.timedelta(days=n): OverflowError outside date.min .. date.max.
date_add(d, n) ==
    LET o == toordinal(d) + n IN
    IF o < 1 \/ o > days_before_year(10000)
    THEN [exc |-> "OverflowError", msg |-> "date value out of range", val |-> d]
    ELSE [exc |-> NoExc, msg |-> "", val |-> fromordinal(o)]

\* a < b on dt.date values
date_lt(a, b) ==
    \/ a.year < b.year
    \/ a.year = b.year /\ a.month < b.month
    \/ a.year = b.year /\ a.month = b.month /\ a.day < b.day

-----------------------------------------------------------------------------
(* DataRequest._parseSimpleDateRange (api_core/data_request.py).           *)

\* What a date-parsing call yields: the (dates, date_grain) pair it returns,
\* or the exception it raises.
Return(ds, grain) == [exc |-> NoExc, msg |-> "", dates |-> ds, date_grain |-> grain]

Raise(e, m) == [exc |-> e, msg |-> m, dates |-> <<>>, date_grain |-> NONE]

\* [int(val) for val in s.split('-')] unpacked into n targets: int() runs on
\* every part before the unpacking checks their number.
unpackInts(s, n) ==
    LET parts == split(s, "-")
        ints == [i \in 1..Len(parts) |-> int(parts[i])]
    IN  IF \E i \in 1..Len(parts) : ints[i].exc # NoExc
        THEN [exc |-> "ValueError", msg |-> "invalid literal for int()", val |-> <<>>]
        ELSE IF Len(parts) # n
        THEN [exc |-> "ValueError", msg |-> "wrong number of values to unpack", val |-> <<>>]
        ELSE [exc |-> NoExc, msg |-> "", val |-> [i \in 1..n |-> ints[i].val]]

\* annualRange with the range test written "end < start": a start one year
\* after the end is let through.
annualRange_laxTest(ds, de) ==
    LET s == int(ds)
        e == int(de)
    IN  IF s.exc # NoExc THEN Raise(s.exc, s.msg)
        ELSE IF e.exc # NoExc THEN Raise(e.exc, e.msg)
        ELSE LET start == s.val
                 end == e.val + 1
             IN  IF end < start
                 THEN Raise("ValueError", "The end date cannot precede the start date.")
                 ELSE Return([i \in 1..(end - start) |->
                                  RequestDate(start + i - 1, None, None)], ANNUAL)

\* The branch len(date_start) == 4 and len(date_end) == 4.
annualRange(ds, de) ==
    LET s == int(ds)
        e == int(de)
    IN  IF s.exc # NoExc THEN Raise(s.exc, s.msg)
        ELSE IF e.exc # NoExc THEN Raise(e.exc, e.msg)
        ELSE LET start == s.val
                 end == e.val + 1
             IN  IF end <= start
                 THEN Raise("ValueError", "The end date cannot precede the start date.")
                 ELSE Return([i \in 1..(end - start) |->
                                  RequestDate(start + i - 1, None, None)], ANNUAL)

\* monthLoop with the month computed as m_cnt % 12, without the "+ 1".
RECURSIVE monthLoop_noPlusOne(_, _, _, _, _, _, _)
monthLoop_noPlusOne(start_y, end_y, end_m, cur_y, cur_m, m_cnt, acc) ==
    IF cur_y * 12 + cur_m <= end_y * 12 + end_m
    THEN monthLoop_noPlusOne(start_y, end_y, end_m,
                             start_y + ((m_cnt + 1) \div 12), (m_cnt + 1) % 12, m_cnt + 1,
                             Append(acc, RequestDate(cur_y, cur_m, None)))
    ELSE acc

\* The while loop of the monthly branch, from the state (cur_y, cur_m, m_cnt)
\* with the list built so far.
RECURSIVE monthLoop(_, _, _, _, _, _, _)
monthLoop(start_y, end_y, end_m, cur_y, cur_m, m_cnt, acc) ==
    IF cur_y * 12 + cur_m <= end_y * 12 + end_m
    THEN monthLoop(start_y, end_y, end_m,
                   start_y + ((m_cnt + 1) \div 12), ((m_cnt + 1) % 12) + 1, m_cnt + 1,
                   Append(acc, RequestDate(cur_y, cur_m, None)))
    ELSE acc

\* monthlyRange with the range test written "<=": a range of one month is
\* refused.
monthlyRange_refusesEqual(ds, de) ==
    LET s == unpackInts(ds, 2)
        e == unpackInts(de, 2)
    IN  IF s.exc # NoExc THEN Raise(s.exc, s.msg)
        ELSE IF e.exc # NoExc THEN Raise(e.exc, e.msg)
        ELSE LET start_y == s.val[1]
                 start_m == s.val[2]
                 end_y == e.val[1]
                 end_m == e.val[2]
             IN  IF start_m < 1 \/ start_m > 12 THEN Raise("ValueError", "Invalid month value")
                 ELSE IF end_m < 1 \/ end_m > 12 THEN Raise("ValueError", "Invalid month value")
                 ELSE IF end_y * 12 + end_m <= start_y * 12 + start_m
                 THEN Raise("ValueError", "The end date cannot precede the start date.")
                 ELSE Return(monthLoop(start_y, end_y, end_m, start_y, start_m,
                                       start_m - 1, <<>>), MONTHLY)

\* The branch len(date_start) == 7 and len(date_end) == 7.
monthlyRange(ds, de) ==
    LET s == unpackInts(ds, 2)
        e == unpackInts(de, 2)
    IN  IF s.exc # NoExc THEN Raise(s.exc, s.msg)
        ELSE IF e.exc # NoExc THEN Raise(e.exc, e.msg)
        ELSE LET start_y == s.val[1]
                 start_m == s.val[2]
                 end_y == e.val[1]
                 end_m == e.val[2]
             IN  IF start_m < 1 \/ start_m > 12 THEN Raise("ValueError", "Invalid month value")
                 ELSE IF end_m < 1 \/ end_m > 12 THEN Raise("ValueError", "Invalid month value")
                 ELSE IF end_y * 12 + end_m < start_y * 12 + start_m
                 THEN Raise("ValueError", "The end date cannot precede the start date.")
                 ELSE Return(monthLoop(start_y, end_y, end_m, start_y, start_m,
                                       start_m - 1, <<>>), MONTHLY)

\* dailyRange without "end_date += interval": the walk stops before the end
\* date instead of after it.
dailyRange_endExclusive(ds, de) ==
    LET s == unpackInts(ds, 3)
        e == unpackInts(de, 3)
    IN  IF s.exc # NoExc THEN Raise(s.exc, s.msg)
        ELSE IF e.exc # NoExc THEN Raise(e.exc, e.msg)
        ELSE LET inc_date == date(s.val[1], s.val[2], s.val[3])
                 end_date == date(e.val[1], e.val[2], e.val[3])
             IN  IF inc_date.exc # NoExc THEN Raise(inc_date.exc, inc_date.msg)
                 ELSE IF end_date.exc # NoExc THEN Raise(end_date.exc, end_date.msg)
                 ELSE IF date_lt(end_date.val, inc_date.val)
                 THEN Raise("ValueError", "The end date cannot precede the start date.")
                 ELSE LET first == toordinal(inc_date.val)
                      IN  Return([i \in 1..(toordinal(end_date.val) - first) |->
                                      fromordinal(first + i - 1)], DAILY)

\* The branch len(date_start) == 10 and len(date_end) == 10.  The loop
\* "while inc_date != end_date" appends inc_date and steps it by one day; it
\* is entered with inc_date <= end_date - 1 day, so it appends the days of
\* the ordinals toordinal(inc_date) .. toordinal(end_date) - 1 in turn.
dailyRange(ds, de) ==
    LET s == unpackInts(ds, 3)
        e == unpackInts(de, 3)
    IN  IF s.exc # NoExc THEN Raise(s.exc, s.msg)
        ELSE IF e.exc # NoExc THEN Raise(e.exc, e.msg)
        ELSE LET inc_date == date(s.val[1], s.val[2], s.val[3])
                 end_date == date(e.val[1], e.val[2], e.val[3])
             IN  IF inc_date.exc # NoExc THEN Raise(inc_date.exc, inc_date.msg)
                 ELSE IF end_date.exc # NoExc THEN Raise(end_date.exc, end_date.msg)
                 ELSE IF date_lt(end_date.val, inc_date.val)
                 THEN Raise("ValueError", "The end date cannot precede the start date.")
                 ELSE LET stop == date_add(end_date.val, 1)
                          first == toordinal(inc_date.val)
                      IN  IF stop.exc # NoExc THEN Raise(stop.exc, stop.msg)
                          ELSE Return([i \in 1..(toordinal(stop.val) - first) |->
                                           fromordinal(first + i - 1)], DAILY)

\* _parseSimpleDateRange choosing the branch by the length of date_start
\* alone.
_parseSimpleDateRange_startOnly(ds_arg, de_arg) ==
    LET ds == IF ds_arg = NoneStr THEN <<>> ELSE ds_arg
        de == IF de_arg = NoneStr THEN <<>> ELSE de_arg
    IN  IF ds = <<>> \/ de = <<>>
        THEN Raise("ValueError", "Start and end dates must both be specified.")
        ELSE IF Len(ds) = 4 THEN annualRange(ds, de)
        ELSE IF Len(ds) = 7 THEN monthlyRange(ds, de)
        ELSE IF Len(ds) = 10 THEN dailyRange(ds, de)
        ELSE Raise("ValueError", "Mismatched starting and ending date granularity.")

_parseSimpleDateRange(ds_arg, de_arg) ==
    LET ds == IF ds_arg = NoneStr THEN <<>> ELSE ds_arg
        de == IF de_arg = NoneStr THEN <<>> ELSE de_arg
    IN  IF ds = <<>> \/ de = <<>>
        THEN Raise("ValueError", "Start and end dates must both be specified.")
        ELSE IF Len(ds) = 4 /\ Len(de) = 4 THEN annualRange(ds, de)
        ELSE IF Len(ds) = 7 /\ Len(de) = 7 THEN monthlyRange(ds, de)
        ELSE IF Len(ds) = 10 /\ Len(de) = 10 THEN dailyRange(ds, de)
        ELSE Raise("ValueError", "Mismatched starting and ending date granularity.")

-----------------------------------------------------------------------------
(* DataRequest._parseRangeStr (api_core/data_request.py).                  *)

RangeReturn(v) == [exc |-> NoExc, msg |-> "", val |-> v]

RangeRaise(e, m) == [exc |-> e, msg |-> m, val |-> <<>>]

\* rangeChecks passing endval, not endval + 1, as the stop of range().
rangeChecks_stopAtEnd(startval, endval, inc, mv) ==
    IF startval > endval
    THEN RangeRaise("ValueError", "The starting value cannot exceed the ending value.")
    ELSE IF startval <= 0 \/ endval <= 0
    THEN RangeRaise("ValueError", "The starting and and ending values must be greater than 0.")
    ELSE IF mv # None /\ endval > mv
    THEN RangeRaise("ValueError", "The ending value cannot exceed maxval.")
    ELSE range(startval, endval, inc)

\* rangeChecks with the test for values <= 0 made before the test for a
\* start past the end.
rangeChecks_positiveFirst(startval, endval, inc, mv) ==
    IF startval <= 0 \/ endval <= 0
    THEN RangeRaise("ValueError", "The starting and and ending values must be greater than 0.")
    ELSE IF startval > endval
    THEN RangeRaise("ValueError", "The starting value cannot exceed the ending value.")
    ELSE IF mv # None /\ endval > mv
    THEN RangeRaise("ValueError", "The ending value cannot exceed maxval.")
    ELSE range(startval, endval + 1, inc)

\* The checks on startval / endval and the final list(range(...)).
rangeChecks(startval, endval, inc, mv) ==
    IF startval > endval
    THEN RangeRaise("ValueError", "The starting value cannot exceed the ending value.")
    ELSE IF startval <= 0 \/ endval <= 0
    THEN RangeRaise("ValueError", "The starting and and ending values must be greater than 0.")
    ELSE IF mv # None /\ endval > mv
    THEN RangeRaise("ValueError", "The ending value cannot exceed maxval.")
    ELSE range(startval, endval + 1, inc)

\* "Determine the ending value of the range", then the checks.
rangeEnd(startval, endval_str, inc, mv) ==
    IF endval_str = <<"N">>
    THEN IF mv = None
         THEN RangeRaise("ValueError", "no maximum value was provided.")
         ELSE rangeChecks(startval, mv, inc, mv)
    ELSE LET e == int(endval_str) IN
         IF e.exc # NoExc THEN RangeRaise(e.exc, e.msg)
         ELSE rangeChecks(startval, e.val, inc, mv)

_parseRangeStr(rs, mv) ==
    LET parts == split(rs, "-") IN
    IF Len(parts) # 2 THEN RangeRaise("ValueError", "Invalid range string")
    ELSE LET s == int(parts[1]) IN
         IF s.exc # NoExc THEN RangeRaise(s.exc, s.msg)
         ELSE IF contains(parts[2], "+")
         THEN LET end_parts == split(parts[2], "+") IN
              IF Len(end_parts) # 2 THEN RangeRaise("ValueError", "Invalid range string")
              ELSE LET i == int(end_parts[2]) IN
                   IF i.exc # NoExc THEN RangeRaise(i.exc, i.msg)
                   ELSE rangeEnd(s.val, end_parts[1], i.val, mv)
         ELSE rangeEnd(s.val, parts[2], 1, mv)

-----------------------------------------------------------------------------
(* DataRequest._parseYMD and DataRequest._parseDates.                      *)

\* self._parseDateRange(...): the class defines no method of this name (its
\* range parser is _parseRangeStr), so the attribute lookup raises.
_parseDateRange(rs) ==
    RangeRaise("AttributeError", "'DataRequest' object has no attribute '_parseDateRange'")

\* True when the loop over y_range x d_range reaches dates.append for some
\* (year, day), that is for a pair the "day == 366 and date.year != year"
\* test does not skip.
reachesAppend(y_range, d_range) ==
    \E i \in 1..Len(y_range), j \in 1..Len(d_range) :
        LET year == y_range[i]
            day == d_range[j]
            dte == fromordinal(day + toordinal(RequestDate(year, 1, 1)) - 1)
        IN  ~(day = 366 /\ dte.year # year)

\* _parseYMD has no return statement: every normal completion returns None,
\* which the record [exc |-> "none"] stands for.  The name dates is not bound
\* in the function, so any dates.append raises NameError.
_parseYMD(ys, ms, dys) ==
    IF ys # NoneStr
    THEN LET y_range == _parseDateRange(ys) IN
         IF y_range.exc # NoExc THEN [exc |-> y_range.exc, msg |-> y_range.msg]
         ELSE IF ms = NoneStr /\ dys = NoneStr
         THEN IF y_range.val # <<>>
              THEN [exc |-> "NameError", msg |-> "name 'dates' is not defined"]
              ELSE [exc |-> NoExc, msg |-> ""]
         ELSE IF ms # NoneStr
         THEN LET m_range == _parseDateRange(ms) IN
              IF m_range.exc # NoExc THEN [exc |-> m_range.exc, msg |-> m_range.msg]
              ELSE IF y_range.val # <<>> /\ m_range.val # <<>>
              THEN [exc |-> "NameError", msg |-> "name 'dates' is not defined"]
              ELSE [exc |-> NoExc, msg |-> ""]
         ELSE LET d_range == _parseDateRange(dys) IN
              IF d_range.exc # NoExc THEN [exc |-> d_range.exc, msg |-> d_range.msg]
              ELSE IF reachesAppend(y_range.val, d_range.val)
              THEN [exc |-> "NameError", msg |-> "name 'dates' is not defined"]
              ELSE [exc |-> NoExc, msg |-> ""]
    ELSE [exc |-> NoExc, msg |-> ""]

\* param is None or param == ''
isBlank(param) == param = NoneStr \/ param = <<>>

\* _parseDates taking a normal completion of _parseYMD for an empty
\* selection instead of failing to unpack it.
_parseDates_acceptsNone(ds, de, ys, ms, dys) ==
    IF isBlank(ds) /\ isBlank(de) /\ isBlank(ys) /\ isBlank(ms) /\ isBlank(dys)
    THEN Return(<<>>, NONE)
    ELSE IF ds # NoneStr \/ de # NoneStr
    THEN _parseSimpleDateRange(ds, de)
    ELSE LET r == _parseYMD(ys, ms, dys) IN
         IF r.exc # NoExc THEN Raise(r.exc, r.msg)
         ELSE Return(<<>>, NONE)

\* _parseDates choosing its path by years: the combinatorial path whenever
\* years is given, whatever date_start and date_end are.
_parseDates_yearsFirst(ds, de, ys, ms, dys) ==
    IF isBlank(ds) /\ isBlank(de) /\ isBlank(ys) /\ isBlank(ms) /\ isBlank(dys)
    THEN Return(<<>>, NONE)
    ELSE IF isBlank(ys)
    THEN _parseSimpleDateRange(ds, de)
    ELSE LET r == _parseYMD(ys, ms, dys) IN
         IF r.exc # NoExc THEN Raise(r.exc, r.msg)
         ELSE Raise("TypeError", "cannot unpack non-iterable NoneType object")

\* "dates, date_graim = self._parseYMD(...)" unpacks the None that _parseYMD
\* returns, which raises TypeError before the final return is reached.
_parseDates(ds, de, ys, ms, dys) ==
    IF isBlank(ds) /\ isBlank(de) /\ isBlank(ys) /\ isBlank(ms) /\ isBlank(dys)
    THEN Return(<<>>, NONE)
    ELSE IF ds # NoneStr \/ de # NoneStr
    THEN _parseSimpleDateRange(ds, de)
    ELSE LET r == _parseYMD(ys, ms, dys) IN
         IF r.exc # NoExc THEN Raise(r.exc, r.msg)
         ELSE Raise("TypeError", "cannot unpack non-iterable NoneType object")

-----------------------------------------------------------------------------
(* The first-generation DataRequest._parse_dates (src/data_request.py):    *)
(* the same three branches, returning a dict year -> month -> [days].  A   *)
(* dict is a function on its keys; {} and [] are both the empty function.  *)

LEGACY_ANNUAL == 0
LEGACY_MONTHLY == 1
LEGACY_DAILY == 2

LegacyReturn(d, grain) == [exc |-> NoExc, msg |-> "", dates |-> d, date_grain |-> grain]

LegacyRaise(e, m) == [exc |-> e, msg |-> m, dates |-> <<>>, date_grain |-> LEGACY_ANNUAL]

legacyAnnual(ds, de) ==
    LET s == int(ds)
        e == int(de)
    IN  IF s.exc # NoExc THEN LegacyRaise(s.exc, s.msg)
        ELSE IF e.exc # NoExc THEN LegacyRaise(e.exc, e.msg)
        ELSE LET start == s.val
                 end == e.val + 1
             IN  IF end <= start
                 THEN LegacyRaise("ValueError", "The end date cannot precede the start date.")
                 ELSE LegacyReturn([year \in start..(end - 1) |-> <<>>], LEGACY_ANNUAL)

\* The while loop of the monthly branch: "if cur_y not in dates:
\* dates[cur_y] = {}", then "dates[cur_y][cur_m] = []".
RECURSIVE legacyMonthLoop(_, _, _, _, _, _, _)
legacyMonthLoop(start_y, end_y, end_m, cur_y, cur_m, m_cnt, acc) ==
    IF cur_y * 12 + cur_m <= end_y * 12 + end_m
    THEN legacyMonthLoop(start_y, end_y, end_m,
                         start_y + ((m_cnt + 1) \div 12), ((m_cnt + 1) % 12) + 1, m_cnt + 1,
                         IF cur_y \in DOMAIN acc
                         THEN [acc EXCEPT ![cur_y] = (cur_m :> <<>>) @@ @]
                         ELSE (cur_y :> (cur_m :> <<>>)) @@ acc)
    ELSE acc

legacyMonthly(ds, de) ==
    LET s == unpackInts(ds, 2)
        e == unpackInts(de, 2)
    IN  IF s.exc # NoExc THEN LegacyRaise(s.exc, s.msg)
        ELSE IF e.exc # NoExc THEN LegacyRaise(e.exc, e.msg)
        ELSE LET start_y == s.val[1]
                 start_m == s.val[2]
                 end_y == e.val[1]
                 end_m == e.val[2]
             IN  IF start_m < 1 \/ start_m > 12
                 THEN LegacyRaise("ValueError", "Invalid month value")
                 ELSE IF end_m < 1 \/ end_m > 12
                 THEN LegacyRaise("ValueError", "Invalid month value")
                 ELSE IF end_y * 12 + end_m < start_y * 12 + start_m
                 THEN LegacyRaise("ValueError", "The end date cannot precede the start date.")
                 ELSE LegacyReturn(legacyMonthLoop(start_y, end_y, end_m, start_y, start_m,
                                                   start_m - 1, <<>>), LEGACY_MONTHLY)

\* The dict the daily loop builds from the days it walks, in walking order:
\* each day is appended to dates[year][month], created on first use.
legacyDayDict(walk) ==
    LET idx == DOMAIN walk
        ys == {walk[i].year : i \in idx}
        monthsOf(y) == {walk[i].month : i \in {j \in idx : walk[j].year = y}}
        daysOf(y, m) ==
            LET at == {i \in idx : walk[i].year = y /\ walk[i].month = m}
                lowest == CHOOSE i \in at : (i - 1) \notin at
            IN  [k \in 1..Cardinality(at) |-> walk[lowest + k - 1].day]
    IN  [y \in ys |-> [m \in monthsOf(y) |-> daysOf(y, m)]]

legacyDaily(ds, de) ==
    LET s == unpackInts(ds, 3)
        e == unpackInts(de, 3)
    IN  IF s.exc # NoExc THEN LegacyRaise(s.exc, s.msg)
        ELSE IF e.exc # NoExc THEN LegacyRaise(e.exc, e.msg)
        ELSE LET inc_date == date(s.val[1], s.val[2], s.val[3])
                 end_date == date(e.val[1], e.val[2], e.val[3])
             IN  IF inc_date.exc # NoExc THEN LegacyRaise(inc_date.exc, inc_date.msg)
                 ELSE IF end_date.exc # NoExc THEN LegacyRaise(end_date.exc, end_date.msg)
                 ELSE IF date_lt(end_date.val, inc_date.val)
                 THEN LegacyRaise("ValueError", "The end date cannot precede the start date.")
                 ELSE LET stop == date_add(end_date.val, 1)
                          first == toordinal(inc_date.val)
                      IN  IF stop.exc # NoExc THEN LegacyRaise(stop.exc, stop.msg)
                          ELSE LegacyReturn(
                                   legacyDayDict([i \in 1..(toordinal(stop.val) - first) |->
                                                      fromordinal(first + i - 1)]),
                                   LEGACY_DAILY)

\* len(None) raises TypeError (the method has no default for a missing
\* date); "and" evaluates len(date_end) only when len(date_start) matched.
_parse_dates(ds, de) ==
    IF ds = NoneStr
    THEN LegacyRaise("TypeError", "object of type 'NoneType' has no len()")
    ELSE IF Len(ds) \in {4, 7, 10} /\ de = NoneStr
    THEN LegacyRaise("TypeError", "object of type 'NoneType' has no len()")
    ELSE IF Len(ds) = 4 /\ Len(de) = 4 THEN legacyAnnual(ds, de)
    ELSE IF Len(ds) = 7 /\ Len(de) = 7 THEN legacyMonthly(ds, de)
    ELSE IF Len(ds) = 10 /\ Len(de) = 10 THEN legacyDaily(ds, de)
    ELSE LegacyRaise("ValueError", "Mismatched starting and ending date granularity.")

-----------------------------------------------------------------------------
(* The arguments the calls are made with.                                  *)

\* n written with exactly w digits, zero-padded ('{:0w}'.format(n)).
fmt(n, w) == [i \in 1..w |-> DigitChars[((n \div (10 ^ (w - i))) % 10) + 1]]

\* n written without padding (str(n)), for 0 <= n < 10000.
decimal(n) ==
    IF n < 10 THEN fmt(n, 1) ELSE IF n < 100 THEN fmt(n, 2)
    ELSE IF n < 1000 THEN fmt(n, 3) ELSE fmt(n, 4)

Years == 2019..(2019 + NumYears - 1)

\* 'YYYY'
YearStrs == {fmt(y, 4) : y \in Years}

\* 'YYYY-MM', months 00 and 13 included
MonthStrs == {fmt(y, 4) \o <<"-">> \o fmt(m, 2) : y \in Years, m \in {0, 1, 2, 11, 12, 13}}

\* 'YYYY-MM-DD' at the ends of February and of the year, days that are not
\* in the calendar (02-29 of a common year, 02-30) included
DayStrs ==
    {fmt(y, 4) \o <<"-">> \o fmt(md[1], 2) \o <<"-">> \o fmt(md[2], 2) :
         y \in Years,
         md \in { <<1, 1>>, <<2, 28>>, <<2, 29>>, <<2, 30>>, <<3, 1>>, <<12, 31>> }}

\* Strings of none of the three shapes, some of them 4, 7 or 10 long.
OddDateStrs ==
    { <<"2", "0", "x", "0">>,
      <<"2", "0", "2", "0", "1">>,
      <<"2", "0", "2", "0", "1", "2", "3">>,
      <<"2", "0", "2", "0", "-", "1", "-", "1">>,
      <<"2", "0", "2", "0", "-", "1", "3", "-", "0", "1">>,
      <<"2", "0", "2", "0", "-", "0", "1", "-", "0", "0">>,
      <<"2", "0", "2", "0", "/", "0", "1", "/", "0", "1">> }

DateArgs == {NoneStr, <<>>} \cup YearStrs \cup MonthStrs \cup DayStrs \cup OddDateStrs

\* Range expressions START-END for years, months and days-of-year.
rangeExpr(a, b) == decimal(a) \o <<"-">> \o decimal(b)

YearsArgs == {NoneStr, <<>>, rangeExpr(2019, 2019), rangeExpr(2019, 2020)}

MonthsArgs == {NoneStr, <<>>, rangeExpr(1, 3), rangeExpr(11, 12)}

DaysArgs == {NoneStr, <<>>, rangeExpr(365, 366), rangeExpr(366, 366), rangeExpr(1, 400)}

\* START-END and START-END+INCREMENT over 0..MaxRangeNum, END also 'N'.
RangeEnds == {decimal(b) : b \in 0..MaxRangeNum} \cup { <<"N">> }

GoodRangeStrs ==
    {decimal(a) \o <<"-">> \o b : a \in 0..MaxRangeNum, b \in RangeEnds}
    \cup {decimal(a) \o <<"-">> \o b \o <<"+">> \o decimal(i) :
              a \in 0..MaxRangeNum, b \in RangeEnds, i \in 0..3}

OddRangeStrs ==
    { <<>>,
      <<"5">>,
      <<"1", "-", "2", "-", "3">>,
      <<"1", "-">>,
      <<"-", "5">>,
      <<"a", "-", "5">>,
      <<"1", "-", "b">>,
      <<"1", "-", "5", "+">>,
      <<"1", "-", "5", "+", "x">>,
      <<"1", "-", "5", "+", "1", "+", "1">>,
      <<"1", "-", "+", "5">>,
      <<"5", "-", "1", "+", "x">>,
      <<"5", "-", "N", "-", "1">>,
      <<"+", "1", "-", "5">> }

RangeStrs == GoodRangeStrs \cup OddRangeStrs

MaxvalArgs == {None, 3, 5, MaxRangeNum}

-----------------------------------------------------------------------------
(* The state machine: a call is made with its arguments bound, then its    *)
(* body runs to a return or to an exception.                               *)

NoDateArgs ==
    /\ date_start = NoneStr /\ date_end = NoneStr
    /\ years = NoneStr /\ months = NoneStr /\ days = NoneStr

NoRangeArgs == rangestr = <<>> /\ maxval = None

NoResult ==
    /\ dates = <<>> /\ date_grain = NONE /\ legacy = <<>> /\ rangeval = <<>>
    /\ exc = NoExc /\ msg = "" /\ exc_arg = ""

\* No DataRequest is under construction.
NoRequest ==
    /\ dsc = <<>> /\ dsvars = <<>> /\ grain_method = "None"
    /\ subset_geom = "None" /\ target_crs = "None" /\ target_resolution = None
    /\ ri_method = "None" /\ request_type = None /\ output_format = "None"
    /\ req_metadata = <<>> /\ self = <<>> /\ md_queries = <<>> /\ built = <<>>

\* No writeRequestedData call has been made: output_dir is empty.
NoOutput == fs_dirs = {} /\ fs_files = <<>> /\ fs_zips = <<>> /\ calls = <<>>

\* self._parseDates(date_start, date_end, years, months, days) of __init__.
InitParseDates ==
    /\ pc = "call" /\ op = "_parseDates"
    /\ date_start \in DateArgs /\ date_end \in DateArgs
    /\ \/ years \in YearsArgs /\ months \in MonthsArgs /\ days \in DaysArgs
          /\ date_start \in {NoneStr, <<>>} /\ date_end \in {NoneStr, <<>>}
       \/ years \in {NoneStr, rangeExpr(2019, 2020)} /\ months = NoneStr /\ days = NoneStr
    /\ NoRangeArgs /\ NoResult /\ NoRequest /\ NoOutput

\* self._parse_dates(date_start, date_end) of the first-generation __init__.
InitLegacyParseDates ==
    /\ pc = "call" /\ op = "_parse_dates"
    /\ date_start \in DateArgs /\ date_end \in DateArgs
    /\ years = NoneStr /\ months = NoneStr /\ days = NoneStr
    /\ NoRangeArgs /\ NoResult /\ NoRequest /\ NoOutput

\* self._parseRangeStr(rangestr, maxval)
InitParseRangeStr ==
    /\ pc = "call" /\ op = "_parseRangeStr"
    /\ rangestr \in RangeStrs /\ maxval \in MaxvalArgs
    /\ NoDateArgs /\ NoResult /\ NoRequest /\ NoOutput

Init == InitParseDates \/ InitLegacyParseDates \/ InitParseRangeStr

ParseDates ==
    /\ pc = "call" /\ op = "_parseDates"
    /\ LET r == _parseDates(date_start, date_end, years, months, days) IN
       /\ pc' = IF r.exc = NoExc THEN "returned" ELSE "raised"
       /\ dates' = r.dates
       /\ date_grain' = r.date_grain
       /\ exc' = r.exc
       /\ msg' = r.msg
    /\ UNCHANGED <<op, date_start, date_end, years, months, days, legacy,
                   rangestr, maxval, rangeval, requestVars, outputVars>>

LegacyParseDates ==
    /\ pc = "call" /\ op = "_parse_dates"
    /\ LET r == _parse_dates(date_start, date_end) IN
       /\ pc' = IF r.exc = NoExc THEN "returned" ELSE "raised"
       /\ legacy' = r.dates
       /\ date_grain' = r.date_grain
       /\ exc' = r.exc
       /\ msg' = r.msg
    /\ UNCHANGED <<op, date_start, date_end, years, months, days, dates,
                   rangestr, maxval, rangeval, requestVars, outputVars>>

ParseRangeStr ==
    /\ pc = "call" /\ op = "_parseRangeStr"
    /\ LET r == _parseRangeStr(rangestr, maxval) IN
       /\ pc' = IF r.exc = NoExc THEN "returned" ELSE "raised"
       /\ rangeval' = r.val
       /\ exc' = r.exc
       /\ msg' = r.msg
    /\ UNCHANGED <<op, date_start, date_end, years, months, days, dates,
                   date_grain, legacy, rangestr, maxval, requestVars, outputVars>>

Next == ParseDates \/ LegacyParseDates \/ ParseRangeStr

Spec == Init /\ [][Next]_vars

-----------------------------------------------------------------------------
(* The properties.  The calendar they refer to is stated here on its own,  *)
(* not through the operators the parsers are modelled with.                *)

LeapYear(y) == (y % 4 = 0 /\ y % 100 # 0) \/ y % 400 = 0

MonthLength(y, m) ==
    CASE m \in {1, 3, 5, 7, 8, 10, 12} -> 31
      [] m \in {4, 6, 9, 11} -> 30
      [] m = 2 -> IF LeapYear(y) THEN 29 ELSE 28

\* a is earlier than b: years first, then months, then days.
Earlier(a, b) ==
    \/ a.year < b.year
    \/ a.year = b.year /\ a.month < b.month
    \/ a.year = b.year /\ a.month = b.month /\ a.day < b.day

NotLater(a, b) == a = b \/ Earlier(a, b)

StrictlyChronological(seq) == \A i \in 1..(Len(seq) - 1) : Earlier(seq[i], seq[i + 1])

Elements(seq) == {seq[i] : i \in DOMAIN seq}

YM(y, m) == fmt(y, 4) \o <<"-">> \o fmt(m, 2)

YMD(y, m, d) == fmt(y, 4) \o <<"-">> \o fmt(m, 2) \o <<"-">> \o fmt(d, 2)

\* The months and the days of the calendar in the years of the model.
CalendarMonths == {RequestDate(y, m, None) : y \in Years, m \in 1..12}

CalendarDays ==
    {rd \in {RequestDate(y, m, d) : y \in Years, m \in 1..12, d \in 1..31} :
         rd.day <= MonthLength(rd.year, rd.month)}

AllBlank == isBlank(date_start) /\ isBlank(date_end) /\ isBlank(years)
            /\ isBlank(months) /\ isBlank(days)

ParsedDates == op = "_parseDates" /\ pc # "call"

\* C1: whenever _parseDates returns, dates is empty if and only if the grain
\* is NONE; a call with none of the five inputs returns grain NONE and no
\* dates; no returned grain ANNUAL, MONTHLY or DAILY comes with no dates.
C1_EmptyIffNone ==
    /\ (op = "_parseDates" /\ pc = "returned") =>
           /\ (dates = <<>>) <=> (date_grain = NONE)
           /\ date_grain \in {NONE, ANNUAL, MONTHLY, DAILY}
    /\ (ParsedDates /\ AllBlank) =>
           (pc = "returned" /\ date_grain = NONE /\ dates = <<>>)

\* A call with no temporal input (an empty start string among them) returned.
C1_Witness ==
    /\ op = "_parseDates" /\ pc = "returned" /\ AllBlank /\ date_start = <<>>
    /\ date_grain = NONE /\ dates = <<>>

\* C2: for a start/end pair of one shape, both valid and the end not before
\* the start, the simple-range path returns exactly the calendar units from
\* start to end, each once, ascending: end-start+1 years; the months with
\* carry from 12 into 1 of the next year; the days of the calendar, 29
\* February in leap years only.
C2_SimpleRangeExact ==
    ParsedDates =>
    /\ \A y1 \in Years, y2 \in Years :
           (date_start = fmt(y1, 4) /\ date_end = fmt(y2, 4) /\ y1 <= y2) =>
               /\ pc = "returned" /\ date_grain = ANNUAL
               /\ Len(dates) = y2 - y1 + 1
               /\ \A i \in 1..Len(dates) : dates[i] = RequestDate(y1 + i - 1, None, None)
    /\ LET firsts == {rd \in CalendarMonths : date_start = YM(rd.year, rd.month)}
           lasts == {rd \in CalendarMonths : date_end = YM(rd.year, rd.month)}
       IN  \A first \in firsts, last \in lasts :
               NotLater(first, last) =>
                   /\ pc = "returned" /\ date_grain = MONTHLY
                   /\ StrictlyChronological(dates)
                   /\ Elements(dates) =
                          {rd \in CalendarMonths : NotLater(first, rd) /\ NotLater(rd, last)}
    /\ LET firsts == IF Len(date_start) # 10 THEN {}
                     ELSE {rd \in CalendarDays : date_start = YMD(rd.year, rd.month, rd.day)}
           lasts == IF Len(date_end) # 10 THEN {}
                    ELSE {rd \in CalendarDays : date_end = YMD(rd.year, rd.month, rd.day)}
       IN  \A first \in firsts, last \in lasts :
               NotLater(first, last) =>
                   /\ pc = "returned" /\ date_grain = DAILY
                   /\ StrictlyChronological(dates)
                   /\ Elements(dates) =
                          {rd \in CalendarDays : NotLater(first, rd) /\ NotLater(rd, last)}

\* The monthly range 2019-11 .. 2020-02 returned its four months, with the
\* carry into January.
C2_Witness ==
    /\ op = "_parseDates" /\ pc = "returned"
    /\ date_start = YM(2019, 11) /\ date_end = YM(2020, 2)
    /\ dates = <<RequestDate(2019, 11, None), RequestDate(2019, 12, None),
                 RequestDate(2020, 1, None), RequestDate(2020, 2, None)>>

\* C3: whenever _parseDates returns (on either path), every RequestDate of
\* dates is strictly later than the one before it.
C3_StrictlyChronological ==
    (op = "_parseDates" /\ pc = "returned") => StrictlyChronological(dates)

\* A daily range across the end of the year returned its two days.
C3_Witness ==
    /\ op = "_parseDates" /\ pc = "returned"
    /\ date_start = YMD(2019, 12, 31) /\ date_end = YMD(2020, 1, 1)
    /\ Len(dates) = 2

Given(param) == ~isBlank(param)

\* The combinatorial path: no start and no end date, some other input.
Combinatorial == date_start = NoneStr /\ date_end = NoneStr /\ ~AllBlank

\* The numbers a, b with param = "a-b", a <= b, drawn from S.
RangeOf(param, S) ==
    IF param = NoneStr THEN {}
    ELSE {ab \in S \X S : ab[1] <= ab[2] /\ param = rangeExpr(ab[1], ab[2])}

\* Day of the year of a calendar day, 1 January being day 1.
RECURSIVE DaysBeforeMonth(_, _)
DaysBeforeMonth(y, m) ==
    IF m = 1 THEN 0 ELSE DaysBeforeMonth(y, m - 1) + MonthLength(y, m - 1)

DayOfYear(rd) == DaysBeforeMonth(rd.year, rd.month) + rd.day

\* C4: on the combinatorial path, years alone gives grain ANNUAL and one
\* RequestDate(year, None, None) per year; years and months give grain
\* MONTHLY and the product years x months, years varying slower; the pair is
\* returned to the caller.
C4_YearsAndMonthsProduct ==
    (ParsedDates /\ Combinatorial /\ days = NoneStr) =>
    \A yr \in RangeOf(years, Years) :
        /\ months = NoneStr =>
               /\ pc = "returned" /\ date_grain = ANNUAL
               /\ dates = [i \in 1..(yr[2] - yr[1] + 1) |->
                               RequestDate(yr[1] + i - 1, None, None)]
        /\ \A mr \in RangeOf(months, 1..12) :
               LET nm == mr[2] - mr[1] + 1 IN
               /\ pc = "returned" /\ date_grain = MONTHLY
               /\ dates = [k \in 1..((yr[2] - yr[1] + 1) * nm) |->
                               RequestDate(yr[1] + ((k - 1) \div nm),
                                           mr[1] + ((k - 1) % nm), None)]

\* C5: on the combinatorial path with years and days, the grain is DAILY and
\* the dates are, year by year, the calendar days whose day of the year is
\* one of the days given; day 366 gives 31 December in a leap year and
\* nothing, without an error, in a common year.
C5_DayOfYear ==
    (ParsedDates /\ Combinatorial /\ months = NoneStr) =>
    \A yr \in RangeOf(years, Years) :
        \A dr \in RangeOf(days, 1..366) :
            /\ pc = "returned" /\ date_grain = DAILY
            /\ StrictlyChronological(dates)
            /\ Elements(dates) =
                   {rd \in CalendarDays :
                        /\ rd.year \in yr[1]..yr[2]
                        /\ DayOfYear(rd) \in dr[1]..dr[2]}

AllDigits(s, positions) == \A i \in positions : IsDigit(s[i])

\* The shape of a date string: digits with '-' after the year and the month.
ShapeOf(s) ==
    IF Len(s) = 4 /\ AllDigits(s, 1..4) THEN "YYYY"
    ELSE IF Len(s) = 7 /\ s[5] = "-" /\ AllDigits(s, {1, 2, 3, 4, 6, 7}) THEN "YYYY-MM"
    ELSE IF Len(s) = 10 /\ s[5] = "-" /\ s[8] = "-"
            /\ AllDigits(s, {1, 2, 3, 4, 6, 7, 9, 10}) THEN "YYYY-MM-DD"
    ELSE "other"

\* A string that has one of the three shapes, or a length none of them has.
ShapeDecided(s) == ShapeOf(s) # "other" \/ Len(s) \notin {4, 7, 10}

UnitsOf(s) ==
    IF Len(s) = 4 THEN {rd \in {RequestDate(y, None, None) : y \in Years} : s = fmt(rd.year, 4)}
    ELSE IF Len(s) = 7
    THEN {rd \in {RequestDate(y, m, None) : y \in Years, m \in 0..13} : s = YM(rd.year, rd.month)}
    ELSE IF Len(s) = 10
    THEN {rd \in {RequestDate(y, m, d) : y \in Years, m \in 0..13, d \in 0..31} :
              s = YMD(rd.year, rd.month, rd.day)}
    ELSE {}

\* A real year, month or day of the calendar.
IsCalendarUnit(rd) ==
    \/ rd.month = None /\ rd.day = None
    \/ rd.month \in 1..12 /\ rd.day = None
    \/ rd.month \in 1..12 /\ rd.day \in 1..MonthLength(rd.year, rd.month)

\* The nested dict of the first-generation parser that holds just rd.
LegacyOneDate(rd) ==
    IF rd.month = None THEN rd.year :> <<>>
    ELSE IF rd.day = None THEN rd.year :> (rd.month :> <<>>)
    ELSE rd.year :> (rd.month :> <<rd.day>>)

\* C8: in each of the three shapes, in both generations of the parser, an
\* end before the start raises an error (the end-precedes-start error when
\* both are calendar units), and an end equal to a valid start returns
\* exactly that one date.
C8_EndBeforeStartAndEqual ==
    (/\ pc # "call" /\ op \in {"_parseDates", "_parse_dates"}
     /\ Len(date_start) = Len(date_end)) =>
    \A first \in UnitsOf(date_start), last \in UnitsOf(date_end) :
        /\ Earlier(last, first) =>
               /\ pc = "raised"
               /\ (IsCalendarUnit(first) /\ IsCalendarUnit(last)) =>
                      (exc = "ValueError"
                       /\ msg = "The end date cannot precede the start date.")
        /\ (last = first /\ IsCalendarUnit(first)) =>
               /\ pc = "returned"
               /\ op = "_parseDates" => dates = <<first>>
               /\ op = "_parse_dates" => legacy = LegacyOneDate(first)

\* The one-day range 2020-02-29 .. 2020-02-29 returned that day.
C8_Witness ==
    /\ op = "_parseDates" /\ pc = "returned"
    /\ date_start = YMD(2020, 2, 29) /\ date_end = YMD(2020, 2, 29)
    /\ dates = <<RequestDate(2020, 2, 29)>>

ParsedRange == op = "_parseRangeStr" /\ pc # "call"

\* The text START-END or START-END+INCREMENT; None as END is the literal
\* 'N', None as INCREMENT is no '+' suffix.
RangeText(a, b, i) ==
    decimal(a) \o <<"-">> \o (IF b = None THEN <<"N">> ELSE decimal(b))
        \o (IF i = None THEN <<>> ELSE <<"+">> \o decimal(i))

\* The triples <<START, END, INCREMENT>> the range string is the text of.
Decoded ==
    {t \in (0..MaxRangeNum) \X ({None} \cup (0..MaxRangeNum)) \X ({None} \cup (0..3)) :
         rangestr = RangeText(t[1], t[2], t[3])}

EndOf(t) == IF t[2] = None THEN maxval ELSE t[2]

IncrementOf(t) == IF t[3] = None THEN 1 ELSE t[3]

\* None of the listed validation conditions applies.
PassesValidation(t) ==
    /\ t[2] = None => maxval # None
    /\ t[1] <= EndOf(t)
    /\ t[1] > 0 /\ EndOf(t) > 0
    /\ maxval = None \/ EndOf(t) <= maxval

Ascending(seq) == \A i, j \in 1..Len(seq) : i < j => seq[i] < seq[j]

\* The call returned START, START+INCREMENT, ... up to END.
ReturnsProgression(t) ==
    /\ pc = "returned"
    /\ Ascending(rangeval)
    /\ Elements(rangeval) =
           {n \in t[1]..EndOf(t) : \E k \in 0..EndOf(t) : n = t[1] + k * IncrementOf(t)}
    /\ (\E k \in 1..Len(rangeval) : rangeval[k] = EndOf(t)) <=>
           ((EndOf(t) - t[1]) % IncrementOf(t) = 0)

\* C9 as stated: every range expression that passes validation returns
\* START, START+INCREMENT, START+2*INCREMENT, ... not exceeding END, in
\* ascending order, INCREMENT defaulting to 1 and 'N' standing for maxval.
C9_AsStated ==
    ParsedRange =>
        \A t \in Decoded :
            PassesValidation(t) =>
                /\ pc = "returned"
                /\ Ascending(rangeval)
                /\ Elements(rangeval) =
                       {n \in t[1]..EndOf(t) :
                            \E k \in 0..EndOf(t) : n = t[1] + k * IncrementOf(t)}

\* C9: every range expression that passes validation and has an INCREMENT of
\* at least 1 (or none, which means 1) returns START, START+INCREMENT, ...
\* not exceeding END, in ascending order, END being in the result exactly
\* when END-START is a multiple of INCREMENT; with an INCREMENT of 0 the
\* call raises ValueError and returns no list.
C9_Progression ==
    ParsedRange =>
        \A t \in Decoded :
            PassesValidation(t) =>
                IF IncrementOf(t) >= 1
                THEN ReturnsProgression(t)
                ELSE pc = "raised" /\ exc = "ValueError" /\ rangeval = <<>>

\* "1-10+2" returned [1, 3, 5, 7, 9].
C9_Witness ==
    /\ ParsedRange /\ pc = "returned"
    /\ rangestr = RangeText(1, 10, 2) /\ maxval = None
    /\ rangeval = <<1, 3, 5, 7, 9>>

CountOf(s, c) == Cardinality({i \in 1..Len(s) : s[i] = c})

\* C10: a range string with a number of '-' other than one, or with more
\* than one '+', is rejected; of the others, 'N' with no maxval is rejected,
\* then START > END, then START <= 0 or END <= 0, then END > maxval, each
\* with its own message and the earliest one winning; a rejected call
\* returns no list.
C10_ValidationOrder ==
    ParsedRange =>
        /\ pc = "raised" => (rangeval = <<>> /\ exc = "ValueError")
        /\ CountOf(rangestr, "-") # 1 =>
               (pc = "raised" /\ msg = "Invalid range string")
        /\ (CountOf(rangestr, "-") = 1 /\ CountOf(rangestr, "+") > 1) => pc = "raised"
        /\ \A t \in Decoded :
               IF t[2] = None /\ maxval = None
               THEN pc = "raised" /\ msg = "no maximum value was provided."
               ELSE IF t[1] > EndOf(t)
               THEN pc = "raised"
                    /\ msg = "The starting value cannot exceed the ending value."
               ELSE IF t[1] <= 0 \/ EndOf(t) <= 0
               THEN pc = "raised"
                    /\ msg = "The starting and and ending values must be greater than 0."
               ELSE IF maxval # None /\ EndOf(t) > maxval
               THEN pc = "raised" /\ msg = "The ending value cannot exceed maxval."
               ELSE IncrementOf(t) >= 1 => pc = "returned"

\* "5-0" with maxval 3 breaks three conditions and got the error of the
\* first, START > END.
C10_Witness ==
    /\ ParsedRange /\ pc = "raised"
    /\ rangestr = RangeText(5, 0, None) /\ maxval = 3
    /\ msg = "The starting value cannot exceed the ending value."

-----------------------------------------------------------------------------
(* DataRequest.__init__ (api_core/data_request.py): constants, the dataset *)
(* catalog it reads, and the steps of the constructor.                     *)

REQ_RASTER == 0
REQ_POINT == 1

RESAMPLE_METHODS ==
    {"nearest", "bilinear", "cubic", "cubic-spline", "lanczos", "average", "mode"}

POINT_METHODS == {"nearest", "linear"}

GRAIN_METHODS == {"strict", "skip", "coarser", "finer", "any"}

GRID_OUTPUT == {"geotiff", "netcdf"}

POINT_OUTPUT == {"csv", "shapefile", "netcdf"}

\* A format table with the long GeoTIFF extension, which no writer branch
\* tests for.
FILE_EXT_tiff ==
    [geotiff |-> ".tiff", netcdf |-> ".nc", csv |-> ".csv", shapefile |-> ".shp"]

FILE_EXT ==
    [geotiff |-> ".tif", netcdf |-> ".nc", csv |-> ".csv", shapefile |-> ".shp"]

\* Python's None where a name (a method, a format, a class, an id) goes.
NoneName == "None"

\* d[k] = v and d.update(other) on a dict.
setitem(d, k, v) == (k :> v) @@ d

update(d, other) == other @@ d

EmptyDict == [k \in {} |-> k]

\* Python's None where a datetime.date goes.
NoneDate == RequestDate(None, None, None)

\* The attributes GSDataSet.__init__ sets (catalog/datasets/gsdataset.py).
GSDataSet ==
    [name |-> "", _id |-> NoneName, url |-> "", description |-> "",
     provider_name |-> "", provider_url |-> "", grid_size |-> None,
     vars |-> <<>>,
     date_ranges |-> [year |-> <<NoneDate, NoneDate>>,
                      month |-> <<NoneDate, NoneDate>>,
                      day |-> <<NoneDate, NoneDate>>]]

\* PRISM.__init__ (catalog/datasets/prism.py).
PRISM ==
    [GSDataSet EXCEPT
        !.name = "PRISM",
        !.url = "https://prism.oregonstate.edu/",
        !.grid_size = 4000,
        !.vars = [ppt |-> "precipitation", tav |-> "mean temperature",
                  tmax |-> "maximum temperature"]
                 @@ ("tmin:" :> "minimum temperature"),
        !.date_ranges = [year |-> <<RequestDate(1895, 1, 1), RequestDate(2020, 1, 1)>>,
                         month |-> <<RequestDate(1895, 1, 1), RequestDate(2021, 1, 1)>>,
                         day |-> <<RequestDate(1981, 1, 1), RequestDate(2021, 1, 31)>>]]

\* MODIS_NDVI.__init__ (library/datasets/modis_ndvi.py).
MODIS_NDVI ==
    [GSDataSet EXCEPT
        !._id = "MODIS_NDVI",
        !.name = "MODIS NDVI Data, Smoothed and Gap-filled, for the Conterminous US: 2000-2015",
        !.url = "https://doi.org/10.3334/ORNLDAAC/1299",
        !.grid_size = 250,
        !.vars = [NDVI |-> "Normalized Difference Vegetation Index"],
        !.date_ranges = [year |-> <<NoneDate, NoneDate>>,
                         month |-> <<NoneDate, NoneDate>>,
                         day |-> <<RequestDate(2000, 1, 1), RequestDate(2015, 12, 31)>>]]

\* A dataset without dates, such as an elevation model.
ELEVATION == [GSDataSet EXCEPT !.name = "ELEVATION", !.grid_size = 30, !.vars = <<"elev">>]

\* The capability attributes _verifyGrains reads from a catalog dataset.
withGrains(ds, nontemporal, supported_grains) ==
    [nontemporal |-> nontemporal, supported_grains |-> supported_grains] @@ ds

\* The catalog: dataset id -> dataset.
DatasetCatalog ==
    ("PRISM" :> withGrains(PRISM, FALSE, {ANNUAL, MONTHLY, DAILY}))
    @@ ("MODIS_NDVI" :> withGrains(MODIS_NDVI, FALSE, {DAILY}))
    @@ ("ELEVATION" :> withGrains(ELEVATION, TRUE, {}))

\* The id property of GSDataSet.
id(ds) == IF ds._id = NoneName THEN ds.name ELSE ds._id

\* d.strftime('%Y-%m') and d.strftime('%Y-%m-%d') for a four-digit year.
strftime_Ym(d) == fmt(d.year, 4) \o <<"-">> \o fmt(d.month, 2)

strftime_Ymd(d) == strftime_Ym(d) \o <<"-">> \o fmt(d.day, 2)

\* GSDataSet.getMetadata: a new dict of the copied attributes and of the
\* date ranges written as years and strings.
getMetadata(ds) ==
    [name |-> ds.name, id |-> id(ds), url |-> ds.url,
     description |-> ds.description, provider_name |-> ds.provider_name,
     provider_url |-> ds.provider_url, grid_size |-> ds.grid_size,
     vars |-> ds.vars,
     date_ranges |->
        [year |-> IF ds.date_ranges.year[1] = NoneDate THEN <<None, None>>
                  ELSE <<ds.date_ranges.year[1].year, ds.date_ranges.year[2].year>>,
         month |-> IF ds.date_ranges.month[1] = NoneDate THEN <<NoneStr, NoneStr>>
                   ELSE <<strftime_Ym(ds.date_ranges.month[1]),
                          strftime_Ym(ds.date_ranges.month[2])>>,
         day |-> IF ds.date_ranges.day[1] = NoneDate THEN <<NoneStr, NoneStr>>
                 ELSE <<strftime_Ymd(ds.date_ranges.day[1]),
                        strftime_Ymd(ds.date_ranges.day[2])>>]]

\* getCRSMetadata(crs): the descriptor of a coordinate reference system, a
\* function of the CRS alone.
getCRSMetadata(crs) == [name |-> crs]

\* The outcome of one step of __init__: no exception, or a raise whose
\* message is formatted with arg.
InitOK == [exc |-> NoExc, msg |-> "", arg |-> ""]

InitRaise(e, m, a) == [exc |-> e, msg |-> m, arg |-> a]

\* "if request_type not in (REQ_RASTER, REQ_POINT)"
checkRequestType(rt) ==
    IF rt \notin {REQ_RASTER, REQ_POINT}
    THEN InitRaise("ValueError", "Invalid request type.", "")
    ELSE InitOK

\* "if ri_method is None: ri_method = 'nearest'"
defaultMethod(m) == IF m = NoneName THEN "nearest" ELSE m

\* checkMethod testing ri_method against one set of all method names.
checkMethod_oneSet(rt, m) ==
    IF rt = REQ_RASTER /\ m \notin RESAMPLE_METHODS \cup POINT_METHODS
    THEN InitRaise("ValueError", "Invalid resampling method: ", m)
    ELSE IF rt = REQ_POINT /\ m \notin RESAMPLE_METHODS \cup POINT_METHODS
    THEN InitRaise("ValueError", "Invalid point interpolation method: ", m)
    ELSE InitOK

\* checkMethod with the test for points made first, then the method tests.
checkMethod_afterPoints(rt, m) ==
    IF rt = REQ_POINT /\ subset_geom # "SubsetMultiPoint"
    THEN InitRaise("ValueError", "No points provided for output.", "")
    ELSE IF rt = REQ_RASTER /\ m \notin RESAMPLE_METHODS
    THEN InitRaise("ValueError", "Invalid resampling method: ", m)
    ELSE IF rt = REQ_POINT /\ m \notin POINT_METHODS
    THEN InitRaise("ValueError", "Invalid point interpolation method: ", m)
    ELSE InitOK

\* The two tests of ri_method against the method set of the request type.
checkMethod(rt, m) ==
    IF rt = REQ_RASTER /\ m \notin RESAMPLE_METHODS
    THEN InitRaise("ValueError", "Invalid resampling method: ", m)
    ELSE IF rt = REQ_POINT /\ m \notin POINT_METHODS
    THEN InitRaise("ValueError", "Invalid point interpolation method: ", m)
    ELSE InitOK

\* checkPointGeom letting a request without any geometry through.
checkPointGeom_acceptsNone(rt, geom) ==
    IF rt = REQ_POINT /\ geom # NoneName /\ geom # "SubsetMultiPoint"
    THEN InitRaise("ValueError", "No points provided for output.", "")
    ELSE InitOK

\* "request_type == REQ_POINT and not(isinstance(subset_geom,
\* SubsetMultiPoint))"; subset_geom is the class of the geometry.
checkPointGeom(rt, geom) ==
    IF rt = REQ_POINT /\ geom # "SubsetMultiPoint"
    THEN InitRaise("ValueError", "No points provided for output.", "")
    ELSE InitOK

\* The 'request' part of the metadata: the caller's values, then the keys
\* _getMetadata sets, which replace a caller's key of the same name.
requestMetadata(req_vals, slf) ==
    LET req_md0 == update(EmptyDict, req_vals)
        req_md1 == setitem(req_md0, "target_date_range",
                           <<slf.date_start_raw, slf.date_end_raw>>)
        req_md2 == setitem(req_md1, "target_crs", getCRSMetadata(slf.target_crs))
    IN  IF slf.request_type = REQ_RASTER
        THEN setitem(setitem(setitem(req_md2, "request_type", "raster"),
                             "target_resolution", slf.target_resolution),
                     "resample_method", slf.ri_method)
        ELSE IF slf.request_type = REQ_POINT
        THEN setitem(setitem(req_md2, "request_type", "points"),
                     "interpolation_method", slf.ri_method)
        ELSE req_md2

\* _getMetadata working on the catalog's own dict of a dataset, to which it
\* adds the requested variables each time it is called.
_getMetadata_writesToDataset(req_vals, slf, catalog) ==
    LET listed(ds) == IF "requested_vars" \in DOMAIN ds THEN ds.requested_vars ELSE <<>>
        ds_md == [i \in 1..Len(slf.dsvars) |->
                     setitem(getMetadata(catalog[slf.dsvars[i].dsid]),
                             "requested_vars",
                             listed(catalog[slf.dsvars[i].dsid]) \o slf.dsvars[i].vars)]
    IN  [md |-> [request |-> requestMetadata(req_vals, slf), datasets |-> ds_md],
         dsc |-> [d \in DOMAIN catalog |->
                     IF \E i \in 1..Len(slf.dsvars) : slf.dsvars[i].dsid = d
                     THEN LET i == CHOOSE i \in 1..Len(slf.dsvars) : slf.dsvars[i].dsid = d
                          IN  setitem(catalog[d], "requested_vars",
                                      listed(catalog[d]) \o slf.dsvars[i].vars)
                     ELSE catalog[d]],
         req_vals |-> req_vals,
         queries |-> [i \in 1..Len(slf.dsvars) |-> slf.dsvars[i].dsid]]

\* DataRequest._getMetadata.  Besides the document md it yields what the
\* call leaves of the objects it was handed: the catalog and the caller's
\* mapping, neither of which it writes to, and the ids of the datasets it
\* asked for their metadata.
_getMetadata(req_vals, slf, catalog) ==
    LET ds_md == [i \in 1..Len(slf.dsvars) |->
                     setitem(getMetadata(catalog[slf.dsvars[i].dsid]),
                             "requested_vars", slf.dsvars[i].vars)]
    IN  [md |-> [request |-> requestMetadata(req_vals, slf), datasets |-> ds_md],
         dsc |-> catalog,
         req_vals |-> req_vals,
         queries |-> [i \in 1..Len(slf.dsvars) |-> slf.dsvars[i].dsid]]

\* "if grain_method is None: grain_method = 'strict'"
defaultGrainMethod(gm) == IF gm = NoneName THEN "strict" ELSE gm

\* "if grain_method not in GRAIN_METHODS"
checkGrainMethod(gm) ==
    IF gm \notin GRAIN_METHODS
    THEN InitRaise("ValueError", "Invalid date grain matching method: ", gm)
    ELSE InitOK

\* _verifyGrains without the test of the nontemporal flag.
_verifyGrains_ignoresNontemporal(gm, dsv, catalog, grain) ==
    LET offending == {i \in 1..Len(dsv) :
                         grain \notin catalog[dsv[i].dsid].supported_grains}
    IN  IF gm = "strict" /\ offending # {}
        THEN InitRaise("ValueError", "{0} does not have requested granularity",
                       dsv[CHOOSE i \in offending : \A j \in offending : i <= j].dsid)
        ELSE InitOK

\* DataRequest._verifyGrains: under 'strict', the first dataset of dsvars, in
\* its order, that is temporal and does not support the grain raises.
_verifyGrains(gm, dsv, catalog, grain) ==
    LET offending == {i \in 1..Len(dsv) :
                         /\ ~catalog[dsv[i].dsid].nontemporal
                         /\ grain \notin catalog[dsv[i].dsid].supported_grains}
    IN  IF gm = "strict" /\ offending # {}
        THEN InitRaise("ValueError", "{0} does not have requested granularity",
                       dsv[CHOOSE i \in offending : \A j \in offending : i <= j].dsid)
        ELSE InitOK

\* "if output_format is None: ..."
defaultOutputFormat(rt, f) ==
    IF f = NoneName THEN (IF rt = REQ_RASTER THEN "geotiff" ELSE "csv") ELSE f

\* checkOutputFormat testing output_format against one set of all formats.
checkOutputFormat_oneSet(rt, f) ==
    IF rt = REQ_RASTER /\ f \notin GRID_OUTPUT \cup POINT_OUTPUT
    THEN InitRaise("ValueError", "Invalid output format: ", f)
    ELSE IF rt = REQ_POINT /\ f \notin GRID_OUTPUT \cup POINT_OUTPUT
    THEN InitRaise("ValueError", "Invalid output format: ", f)
    ELSE InitOK

\* The two tests of output_format against the format set of the request type.
checkOutputFormat(rt, f) ==
    IF rt = REQ_RASTER /\ f \notin GRID_OUTPUT
    THEN InitRaise("ValueError", "Invalid output format: ", f)
    ELSE IF rt = REQ_POINT /\ f \notin POINT_OUTPUT
    THEN InitRaise("ValueError", "Invalid output format: ", f)
    ELSE InitOK

\* FILE_EXT[output_format]
fileExtension(f) ==
    IF f \in DOMAIN FILE_EXT
    THEN [exc |-> NoExc, msg |-> "", arg |-> "", val |-> FILE_EXT[f]]
    ELSE [exc |-> "KeyError", msg |-> "", arg |-> f, val |-> ""]

-----------------------------------------------------------------------------
(* Constructing a DataRequest: the arguments, and __init__ step by step.   *)
(* The constructor is straight-line code, so each step is enabled only at  *)
(* its own place in it; a raise ends the construction.                     *)

\* dsvars: dataset id -> list of variables, in the order of the dict.
dsvar(dsid, varnames) == [dsid |-> dsid, vars |-> varnames]

DsvarsArgs ==
    { <<>>,
      <<dsvar("PRISM", <<"ppt">>)>>,
      <<dsvar("MODIS_NDVI", <<"NDVI">>)>>,
      <<dsvar("ELEVATION", <<"elev">>)>>,
      <<dsvar("PRISM", <<"ppt", "tmax">>), dsvar("MODIS_NDVI", <<"NDVI">>)>>,
      <<dsvar("ELEVATION", <<"elev">>), dsvar("MODIS_NDVI", <<"NDVI">>),
        dsvar("PRISM", <<"tmax">>)>> }

\* <<date_start, date_end, years, months, days>>: no dates, an annual and a
\* daily range, and a range whose end precedes its start.
RequestDateArgs ==
    { <<NoneStr, NoneStr, NoneStr, NoneStr, NoneStr>>,
      <<fmt(2019, 4), fmt(2020, 4), NoneStr, NoneStr, NoneStr>>,
      <<fmt(2020, 4) \o <<"-">> \o fmt(2, 2) \o <<"-">> \o fmt(28, 2),
        fmt(2020, 4) \o <<"-">> \o fmt(3, 2) \o <<"-">> \o fmt(1, 2),
        NoneStr, NoneStr, NoneStr>>,
      <<fmt(2020, 4), fmt(2019, 4), NoneStr, NoneStr, NoneStr>> }

RequestTypeArgs == {REQ_RASTER, REQ_POINT, 2}

MethodArgs == {NoneName, "nearest", "linear", "bilinear", "mean"}

GeomArgs == {NoneName, "SubsetPolygon", "SubsetMultiPoint"}

GrainMethodArgs == {NoneName, "exact"} \cup GRAIN_METHODS

FormatArgs == {NoneName, "geotiff", "netcdf", "csv", "shapefile", "json"}

\* The caller's metadata: a key of its own, or a key _getMetadata also sets.
MetadataArgs == {"user" :> "jdoe", "request_type" :> "custom"}

\* DataRequest(dataset_catalog, dsvars, date_start, ..., req_metadata)
InitConstruct ==
    /\ pc = "call" /\ op = "__init__"
    /\ \E d \in RequestDateArgs :
           /\ date_start = d[1] /\ date_end = d[2]
           /\ years = d[3] /\ months = d[4] /\ days = d[5]
    /\ dsc = DatasetCatalog
    /\ dsvars \in DsvarsArgs
    /\ grain_method \in GrainMethodArgs
    /\ subset_geom \in GeomArgs
    /\ target_crs = "EPSG:4326"
    /\ target_resolution = 1000
    /\ ri_method \in MethodArgs
    /\ request_type \in RequestTypeArgs
    /\ output_format \in FormatArgs
    /\ req_metadata \in MetadataArgs
    /\ self = EmptyDict /\ md_queries = <<>> /\ built = <<>>
    /\ NoRangeArgs /\ NoResult /\ NoOutput

Constructing(at) == op = "__init__" /\ pc = at

\* A step raises: the construction ends with the exception.
Raises(r) ==
    /\ pc' = "raised"
    /\ exc' = r.exc /\ msg' = r.msg /\ exc_arg' = r.arg

NoRaise == UNCHANGED <<exc, msg, exc_arg>>

\* What no step of __init__ changes: its arguments, the parsers' leftovers
\* and the output directory.
callArgs == <<op, date_start, date_end, years, months, days, legacy, rangestr,
              maxval, rangeval, requestArgs, outputVars>>

\* Lines 79-88: the first assignments and self._parseDates(...).
InitParseDatesStep ==
    /\ Constructing("call")
    /\ LET r == _parseDates(date_start, date_end, years, months, days)
           slf == setitem(setitem(setitem(self, "dsvars", dsvars),
                                  "date_start_raw", date_start),
                          "date_end_raw", date_end)
       IN  IF r.exc # NoExc
           THEN /\ Raises([exc |-> r.exc, msg |-> r.msg, arg |-> ""])
                /\ self' = slf
                /\ UNCHANGED <<dates, date_grain>>
           ELSE /\ pc' = "check_type"
                /\ dates' = r.dates /\ date_grain' = r.date_grain
                /\ self' = setitem(setitem(setitem(slf, "subset_geom", subset_geom),
                                           "target_crs", target_crs),
                                   "target_resolution", target_resolution)
                /\ NoRaise
    /\ UNCHANGED <<callArgs, dsc, req_metadata, md_queries, built>>

\* Lines 90-93: the request type.
CheckRequestType ==
    /\ Constructing("check_type")
    /\ LET r == checkRequestType(request_type) IN
       IF r.exc # NoExc
       THEN Raises(r) /\ UNCHANGED self
       ELSE /\ pc' = "check_method"
            /\ self' = setitem(self, "request_type", request_type)
            /\ NoRaise
    /\ UNCHANGED <<callArgs, dates, date_grain, dsc, req_metadata, md_queries, built>>

\* Lines 95-110: the default method and the method sets.
CheckMethod ==
    /\ Constructing("check_method")
    /\ LET r == checkMethod(request_type, defaultMethod(ri_method)) IN
       IF r.exc # NoExc THEN Raises(r) ELSE pc' = "check_points" /\ NoRaise
    /\ UNCHANGED <<callArgs, dates, date_grain, dsc, req_metadata, self,
                   md_queries, built>>

\* Lines 112-120: POINT needs points; then self.ri_method.
CheckPointGeom ==
    /\ Constructing("check_points")
    /\ LET r == checkPointGeom(request_type, subset_geom) IN
       IF r.exc # NoExc
       THEN Raises(r) /\ UNCHANGED self
       ELSE /\ pc' = "get_metadata"
            /\ self' = setitem(self, "ri_method", defaultMethod(ri_method))
            /\ NoRaise
    /\ UNCHANGED <<callArgs, dates, date_grain, dsc, req_metadata, md_queries, built>>

\* Line 121: self.metadata = self._getMetadata(req_metadata)
GetMetadata ==
    /\ Constructing("get_metadata")
    /\ LET r == _getMetadata(req_metadata, self, dsc) IN
       /\ self' = setitem(self, "metadata", r.md)
       /\ dsc' = r.dsc
       /\ req_metadata' = r.req_vals
       /\ md_queries' = md_queries \o r.queries
    /\ pc' = "check_grain_method"
    /\ NoRaise
    /\ UNCHANGED <<callArgs, dates, date_grain, built>>

\* Lines 123-131: the default grain method and the recognized methods.
CheckGrainMethod ==
    /\ Constructing("check_grain_method")
    /\ LET r == checkGrainMethod(defaultGrainMethod(grain_method)) IN
       IF r.exc # NoExc
       THEN Raises(r) /\ UNCHANGED self
       ELSE /\ pc' = "verify_grains"
            /\ self' = setitem(self, "grain_method", defaultGrainMethod(grain_method))
            /\ NoRaise
    /\ UNCHANGED <<callArgs, dates, date_grain, dsc, req_metadata, md_queries, built>>

\* Line 132: self._verifyGrains()
VerifyGrains ==
    /\ Constructing("verify_grains")
    /\ LET r == _verifyGrains(self.grain_method, self.dsvars, dsc, date_grain) IN
       IF r.exc # NoExc THEN Raises(r) ELSE pc' = "check_format" /\ NoRaise
    /\ UNCHANGED <<callArgs, dates, date_grain, dsc, req_metadata, self,
                   md_queries, built>>

\* Lines 134-154: the default output format and the format sets.
CheckOutputFormat ==
    /\ Constructing("check_format")
    /\ LET r == checkOutputFormat(request_type,
                                  defaultOutputFormat(request_type, output_format)) IN
       IF r.exc # NoExc THEN Raises(r) ELSE pc' = "file_extension" /\ NoRaise
    /\ UNCHANGED <<callArgs, dates, date_grain, dsc, req_metadata, self,
                   md_queries, built>>

\* Line 156: self.file_extension = FILE_EXT[output_format]
SetFileExtension ==
    /\ Constructing("file_extension")
    /\ LET r == fileExtension(defaultOutputFormat(request_type, output_format)) IN
       IF r.exc # NoExc
       THEN Raises(r) /\ UNCHANGED self
       ELSE /\ pc' = "returned"
            /\ self' = setitem(self, "file_extension", r.val)
            /\ NoRaise
    /\ UNCHANGED <<callArgs, dates, date_grain, dsc, req_metadata, md_queries, built>>

\* The caller constructs a second DataRequest with the same arguments and
\* the same catalog; the metadata of the first is kept for comparison.
ConstructAgain ==
    /\ Constructing("returned") /\ built = <<>>
    /\ built' = <<self.metadata>>
    /\ pc' = "call"
    /\ self' = EmptyDict /\ md_queries' = <<>>
    /\ dates' = <<>> /\ date_grain' = NONE
    /\ NoRaise
    /\ UNCHANGED <<callArgs, dsc, req_metadata>>

NextConstruct ==
    \/ InitParseDatesStep \/ CheckRequestType \/ CheckMethod \/ CheckPointGeom
    \/ GetMetadata \/ CheckGrainMethod \/ VerifyGrains \/ CheckOutputFormat
    \/ SetFileExtension \/ ConstructAgain

SpecConstruct == InitConstruct /\ [][NextConstruct]_vars
-----------------------------------------------------------------------------
(* Properties of the construction of a DataRequest.                        *)

Constructed == op = "__init__" /\ pc = "returned"

ConstructionFailed == op = "__init__" /\ pc = "raised"

\* The grain policy in force: 'strict' when none is given.
StrictPolicy == grain_method \in {NoneName, "strict"}

\* The datasets of dsvars that are temporal and do not list the grain of the
\* request among the grains they support.
OffendingDatasets ==
    {dsvars[i].dsid : i \in {j \in 1..Len(dsvars) :
        /\ ~DatasetCatalog[dsvars[j].dsid].nontemporal
        /\ date_grain \notin DatasetCatalog[dsvars[j].dsid].supported_grains}}

GrainError == msg = "{0} does not have requested granularity"

\* C11: under 'strict' (the default too) a DataRequest is constructed only
\* if no temporal dataset of dsvars lacks the grain of the request; a
\* construction that got as far as the grain check with such a dataset
\* fails with the error that names one of them; a nontemporal dataset is
\* never named, and under skip, coarser, finer and any the error is never
\* raised.
C11_StrictGrainSupport ==
    /\ (Constructed /\ StrictPolicy) => OffendingDatasets = {}
    /\ (ConstructionFailed /\ "grain_method" \in DOMAIN self /\ StrictPolicy
            /\ OffendingDatasets # {}) =>
           (GrainError /\ exc = "ValueError" /\ exc_arg \in OffendingDatasets)
    /\ (ConstructionFailed /\ GrainError) =>
           (StrictPolicy /\ exc_arg \in OffendingDatasets)

\* An annual request for PRISM and MODIS_NDVI under the default policy
\* failed naming MODIS_NDVI, which has daily data only.
C11_Witness ==
    /\ ConstructionFailed /\ GrainError /\ exc_arg = "MODIS_NDVI"
    /\ grain_method = NoneName /\ date_grain = ANNUAL
    /\ Len(dsvars) = 2 /\ dsvars[1].dsid = "PRISM"
\* The places of __init__ up to and including the test for points.
BeforeMetadata == {"call", "check_type", "check_method", "check_points"}

\* C12: a construction with request type POINT and a geometry that is not a
\* SubsetMultiPoint (a polygon, or none) never gets past the test for
\* points, whatever the other arguments: it ends in an exception, and no
\* constructed POINT request holds another geometry.
C12_PointNeedsMultiPoint ==
    /\ (op = "__init__" /\ request_type = REQ_POINT
            /\ subset_geom # "SubsetMultiPoint") =>
           (pc \in BeforeMetadata \cup {"raised"} /\ "metadata" \notin DOMAIN self)
    /\ (Constructed /\ self.request_type = REQ_POINT) =>
           self.subset_geom = "SubsetMultiPoint"

\* A POINT request with a polygon and otherwise valid arguments failed for
\* want of points.
C12_Witness ==
    /\ ConstructionFailed /\ msg = "No points provided for output."
    /\ request_type = REQ_POINT /\ subset_geom = "SubsetPolygon"
    /\ ri_method = "linear" /\ output_format = "csv"
\* The method sets as the interface states them.
MethodSetOf(rt) ==
    IF rt = REQ_RASTER
    THEN {"nearest", "bilinear", "cubic", "cubic-spline", "lanczos", "average", "mode"}
    ELSE {"nearest", "linear"}

\* C13: a constructed DataRequest has the method it was given, or 'nearest'
\* if it was given none, and that method is one of the seven resample
\* methods for RASTER, one of nearest and linear for POINT; a construction
\* given a method outside the set of its type never gets past the method
\* test, whatever the other arguments.
C13_MethodOfType ==
    /\ Constructed =>
           /\ self.ri_method = (IF ri_method = NoneName THEN "nearest" ELSE ri_method)
           /\ self.request_type \in {REQ_RASTER, REQ_POINT}
           /\ self.ri_method \in MethodSetOf(self.request_type)
    /\ (op = "__init__" /\ request_type \in {REQ_RASTER, REQ_POINT}
            /\ ri_method # NoneName /\ ri_method \notin MethodSetOf(request_type)) =>
           (pc \in {"call", "check_type", "check_method", "raised"}
            /\ "ri_method" \notin DOMAIN self)

\* A RASTER request with method 'linear' failed as an invalid resampling
\* method.
C13_Witness ==
    /\ ConstructionFailed /\ msg = "Invalid resampling method: "
    /\ exc_arg = "linear" /\ request_type = REQ_RASTER /\ ri_method = "linear"
\* The format sets and the extension table as the interface states them.
FormatSetOf(rt) ==
    IF rt = REQ_RASTER THEN {"geotiff", "netcdf"} ELSE {"csv", "shapefile", "netcdf"}

ExtensionOf(f) ==
    CASE f = "geotiff" -> ".tif"
      [] f = "netcdf" -> ".nc"
      [] f = "csv" -> ".csv"
      [] f = "shapefile" -> ".shp"
      [] OTHER -> ""

\* The output format in force: geotiff for RASTER and csv for POINT when none
\* is given.
FormatInForce ==
    IF output_format # NoneName THEN output_format
    ELSE IF request_type = REQ_RASTER THEN "geotiff" ELSE "csv"

\* C14: a constructed DataRequest has an output format, the default of its
\* request type if none was given, that is in the format set of its type,
\* and its file_extension is the table's entry for that format; a format
\* outside the set of the type never yields a DataRequest, and the output
\* format error is raised for such a format only.
C14_FormatAndExtension ==
    /\ Constructed =>
           /\ FormatInForce \in FormatSetOf(self.request_type)
           /\ self.file_extension = ExtensionOf(FormatInForce)
    /\ (op = "__init__" /\ request_type \in {REQ_RASTER, REQ_POINT}
            /\ FormatInForce \notin FormatSetOf(request_type)) =>
           (pc \notin {"file_extension", "returned"}
            /\ "file_extension" \notin DOMAIN self)
    /\ (ConstructionFailed /\ msg = "Invalid output format: ") =>
           (exc_arg = output_format /\ output_format \notin FormatSetOf(request_type))

\* A POINT request given no output format was constructed with extension
\* .csv.
C14_Witness ==
    /\ Constructed /\ request_type = REQ_POINT /\ output_format = NoneName
    /\ self.file_extension = ".csv"
\* C15: a second DataRequest constructed with the arguments and the catalog
\* of a first one is constructed too and has the same metadata document,
\* request part and per-dataset part with its requested_vars; building the
\* metadata leaves the catalog and the caller's mapping as they were.
C15_SameInputsSameMetadata ==
    /\ op = "__init__" => (dsc = DatasetCatalog /\ req_metadata \in MetadataArgs)
    /\ (op = "__init__" /\ built # <<>>) =>
           /\ pc # "raised"
           /\ "metadata" \in DOMAIN self => self.metadata = built[1]

\* The second of two RASTER requests for two datasets, whose caller's
\* mapping has the key request_type, has the metadata of the first.
C15_Witness ==
    /\ Constructed /\ built # <<>> /\ self.metadata = built[1]
    /\ Len(self.metadata.datasets) = 2
    /\ self.metadata.datasets[1].requested_vars = <<"ppt", "tmax">>
    /\ req_metadata = ("request_type" :> "custom")
    /\ self.metadata.request["request_type"] = "raster"
\* The date arguments were parsed and the fields that follow were assigned.
DatesParsed == "subset_geom" \in DOMAIN self

MethodInForce == IF ri_method = NoneName THEN "nearest" ELSE ri_method

GrainPolicyInForce == IF grain_method = NoneName THEN "strict" ELSE grain_method

\* Check k of the sequence is violated by the arguments.
Violated(k) ==
    CASE k = 1 -> request_type \notin {REQ_RASTER, REQ_POINT}
      [] k = 2 -> /\ request_type \in {REQ_RASTER, REQ_POINT}
                  /\ MethodInForce \notin MethodSetOf(request_type)
      [] k = 3 -> request_type = REQ_POINT /\ subset_geom # "SubsetMultiPoint"
      [] k = 4 -> GrainPolicyInForce \notin {"strict", "skip", "coarser", "finer", "any"}
      [] k = 5 -> StrictPolicy /\ OffendingDatasets # {}
      [] k = 6 -> /\ request_type \in {REQ_RASTER, REQ_POINT}
                  /\ FormatInForce \notin FormatSetOf(request_type)
      [] OTHER -> FALSE

\* The messages of the error of check k.
ErrorsOf(k) ==
    CASE k = 1 -> {"Invalid request type."}
      [] k = 2 -> {"Invalid resampling method: ", "Invalid point interpolation method: "}
      [] k = 3 -> {"No points provided for output."}
      [] k = 4 -> {"Invalid date grain matching method: "}
      [] k = 5 -> {"{0} does not have requested granularity"}
      [] k = 6 -> {"Invalid output format: "}
      [] OTHER -> {}

EarliestViolated == CHOOSE k \in 1..6 : Violated(k) /\ \A j \in 1..(k - 1) : ~Violated(j)

\* C19: once the dates are parsed, the checks run in the order request type,
\* method, points, grain policy, strict grain support, output format, file
\* extension: a construction fails exactly if the arguments violate one of
\* them, with the error of the earliest violated check, and nothing a later
\* step assigns has been assigned.
C19_EarliestCheckFails ==
    /\ Constructed => \A k \in 1..6 : ~Violated(k)
    /\ (ConstructionFailed /\ DatesParsed) =>
           /\ \E k \in 1..6 : Violated(k)
           /\ exc = "ValueError" /\ msg \in ErrorsOf(EarliestViolated)
           /\ "file_extension" \notin DOMAIN self
           /\ EarliestViolated <= 4 => "grain_method" \notin DOMAIN self
           /\ EarliestViolated <= 3 => "ri_method" \notin DOMAIN self
           /\ EarliestViolated = 1 => "request_type" \notin DOMAIN self

\* A POINT request with an unknown method, a polygon, an unknown grain
\* policy and an unknown format failed on the method.
C19_Witness ==
    /\ ConstructionFailed /\ msg = "Invalid point interpolation method: "
    /\ request_type = REQ_POINT /\ ri_method = "mean"
    /\ subset_geom = "SubsetPolygon" /\ grain_method = "exact"
    /\ output_format = "json"
\* C20: the metadata document is derived once and only after every
\* validation check has succeeded: a construction that fails has neither
\* asked the catalog for dataset metadata nor assigned the metadata field,
\* and a constructed request has asked each dataset of dsvars once.
C20_MetadataAfterValidation ==
    /\ ConstructionFailed => (md_queries = <<>> /\ "metadata" \notin DOMAIN self)
    /\ (op = "__init__" /\ "metadata" \in DOMAIN self) => \A k \in 1..6 : ~Violated(k)
    /\ Constructed =>
           /\ "metadata" \in DOMAIN self
           /\ md_queries = [i \in 1..Len(dsvars) |-> dsvars[i].dsid]

-----------------------------------------------------------------------------
(* DataRequestOutput: the files of a request and its ZIP archive.  A file  *)
(* name is its stem, the parts '_'.join puts together, and its extension;  *)
(* a path is a name under a working directory of output_dir.  The content  *)
(* of a file is a key/value document.                                      *)

\* Number of names random.choices(fname_chars, k=...) draws from.
NumNames == 2

NameTable == <<"k3v9x0aq", "p7m2c4zd", "w1t8r5be", "h6y0n3us">>

RandomNames == {NameTable[i] : i \in 1..NumNames}

FileName(stem, ext) == [stem |-> stem, ext |-> ext]

Path(dir, name) == [dir |-> dir, name |-> name]

NoPath == Path("", FileName(<<>>, ""))

\* The files geopandas' to_file writes for one shapefile.
ShapefileParts == <<".shp", ".shx", ".dbf">>

\* A writer returns the paths it produced, or raises; either way the files
\* in "written" are on disk.
OutOK(paths, written) ==
    [exc |-> NoExc, msg |-> "", fout_paths |-> paths, written |-> written]

OutRaise(e, m, written) ==
    [exc |-> e, msg |-> m, fout_paths |-> <<>>, written |-> written]

\* A writer that drops the files the file system refuses and carries on.
writeAll_skipsFailed(paths, quota) ==
    LET n == IF quota < Len(paths) THEN quota ELSE Len(paths) IN
    OutOK(SubSeq(paths, 1, n), SubSeq(paths, 1, n))

\* to_netcdf / to_csv / to_file on each path in turn: the file system takes
\* "quota" files, the write after them fails and its exception propagates.
writeAll(paths, quota) ==
    IF quota < Len(paths)
    THEN OutRaise("OSError", "", SubSeq(paths, 1, quota))
    ELSE OutOK(paths, paths)

RECURSIVE SetToSeq(_)
SetToSeq(S) ==
    IF S = {} THEN <<>>
    ELSE LET x == CHOOSE y \in S : TRUE IN <<x>> \o SetToSeq(S \ {x})

\* Path(output_dir).glob(fname + '.*') over the files of the directory.
glob(files, output_dir, fname) ==
    SetToSeq({f \in files : f.dir = output_dir /\ f.name.stem = fname})

SeqToSet(s) == {s[i] : i \in 1..Len(s)}

\* '_'.join(request.dsvars.keys())
joinKeys(dsv) == [i \in 1..Len(dsv) |-> dsv[i].dsid]

\* ds_output_dict is the dict dataset id -> data of the dataset, in its
\* order; "layers" counts the (variable, time step) pairs of a raster
\* dataset.
_writeRasterFiles(ds_output_dict, request, output_dir, quota) ==
    IF request.file_extension = ".tif"
    THEN \* the first layer evaluates the undefined name "grain"
         IF \E i \in 1..Len(ds_output_dict) : ds_output_dict[i].layers > 0
         THEN OutRaise("NameError", "name 'grain' is not defined", <<>>)
         ELSE OutOK(<<>>, <<>>)
    ELSE IF request.file_extension = ".nc"
    THEN writeAll([i \in 1..Len(ds_output_dict) |->
                      Path(output_dir,
                           FileName(<<ds_output_dict[i].dsid>>, request.file_extension))],
                  quota)
    ELSE OutRaise("ValueError", "Unsupported raster output format.", <<>>)

_writePointFiles(ds_output_dict, request, output_dir, quota, files) ==
    LET fname == joinKeys(request.dsvars)
        fout_path == Path(output_dir, FileName(fname, request.file_extension))
    IN
    IF Len(ds_output_dict) = 0
    THEN OutRaise("IndexError", "list index out of range", <<>>)
    ELSE IF request.file_extension = ".csv"
    THEN writeAll(<<fout_path>>, quota)
    ELSE IF request.file_extension = ".shp"
    THEN LET w == writeAll([i \in 1..Len(ShapefileParts) |->
                               Path(output_dir, FileName(fname, ShapefileParts[i]))],
                           quota)
         IN IF w.exc # NoExc
            THEN w
            ELSE OutOK(glob(files \cup SeqToSet(w.written), output_dir, fname),
                       w.written)
    ELSE IF request.file_extension = ".nc"
    THEN writeAll(<<fout_path>>, quota)
    ELSE OutRaise("ValueError", "Unsupported point output format.", <<>>)

\* The local fout_paths before anything is assigned to it.
Unbound == <<NoPath>>

\* "if request.request_type == dr.REQ_RASTER: ... elif ... REQ_POINT: ..."
writeData(ds_output_dict, request, output_dir, quota, files) ==
    IF request.request_type = REQ_RASTER
    THEN _writeRasterFiles(ds_output_dict, request, output_dir, quota)
    ELSE IF request.request_type = REQ_POINT
    THEN _writePointFiles(ds_output_dict, request, output_dir, quota, files)
    ELSE OutOK(Unbound, <<>>)

\* The sidecar's path: a random name with the extension .json.
_writeMetadataFile(output_dir, name) ==
    Path(output_dir, FileName(<<name>>, ".json"))

\* A file of a request on disk; "by" is the call that wrote it.
File(content, by) == [content |-> content, by |-> by]

DataContent(path) == "data" :> path.name.ext

\* zipfile.ZipFile(zfpath, mode='w'): the archive at zfpath is created, or
\* truncated when it exists.  "filelist" is the central directory the last
\* close() wrote, "writers" the calls that opened the archive, "stored" the
\* calls whose entries lie in the file, "head" the call whose entry lies at
\* the start of the file (0: none), "damaged" the calls whose stored entries
\* were truncated away or written over.
ZipFile(archives, zfpath, p) ==
    IF zfpath \in DOMAIN archives
    THEN LET a == archives[zfpath] IN
         [filelist |-> <<>>, writers |-> a.writers \cup {p}, closed_by |-> a.closed_by,
          stored |-> {}, head |-> 0, damaged |-> a.damaged \cup (a.stored \ {p})]
    ELSE [filelist |-> <<>>, writers |-> {p}, closed_by |-> {},
          stored |-> {}, head |-> 0, damaged |-> {}]

ZipInfo(filename, content) == [filename |-> filename, content |-> content]

\* zfile.write(path, arcname): the handle of call p, which holds the
\* entries of "zfile", stores the next entry at its own offset; its first
\* entry goes to the start of the file.
zipStore(a, zfile, p) ==
    [a EXCEPT !.stored = @ \cup {p},
              !.head = IF zfile = <<>> THEN p ELSE @,
              !.damaged = IF zfile = <<>> /\ a.head \notin {0, p}
                          THEN @ \cup {a.head} ELSE @]

\* zfile.close(): the handle writes its central directory.
zipClose(a, zfile, p) ==
    [a EXCEPT !.filelist = zfile, !.closed_by = @ \cup {p}]

-----------------------------------------------------------------------------
(* writeRequestedData step by step, for the calls in flight on one         *)
(* output_dir.  A call is the record of its locals; its steps interleave   *)
(* with the steps of the other calls at the file-system operations.        *)

Calls == {1, 2}

OutputRequest(rt, ext, dsv, md) ==
    [request_type |-> rt, file_extension |-> ext, dsvars |-> dsv, metadata |-> md]

OutputData(dsid, layers) == [dsid |-> dsid, layers |-> layers]

\* Validated requests with the data the backends produced for them.
OutputArgs ==
    { <<OutputRequest(REQ_RASTER, ".nc",
                      <<dsvar("PRISM", <<"ppt">>), dsvar("MODIS_NDVI", <<"NDVI">>)>>,
                      "request_type" :> "raster"),
        <<OutputData("PRISM", 2), OutputData("MODIS_NDVI", 1)>> >>,
      <<OutputRequest(REQ_RASTER, ".tif", <<dsvar("PRISM", <<"ppt">>)>>,
                      "request_type" :> "raster"),
        <<OutputData("PRISM", 2)>> >>,
      <<OutputRequest(REQ_POINT, ".csv",
                      <<dsvar("PRISM", <<"ppt">>), dsvar("MODIS_NDVI", <<"NDVI">>)>>,
                      "request_type" :> "points"),
        <<OutputData("PRISM", 0), OutputData("MODIS_NDVI", 0)>> >>,
      <<OutputRequest(REQ_RASTER, ".tif", <<dsvar("ELEVATION", <<"elev">>)>>,
                      "request_type" :> "raster"),
        <<OutputData("ELEVATION", 0)>> >>,
      <<OutputRequest(REQ_POINT, ".shp", <<dsvar("PRISM", <<"ppt">>)>>,
                      "request_type" :> "points"),
        <<OutputData("PRISM", 0)>> >>,
      <<OutputRequest(REQ_POINT, ".nc", <<dsvar("MODIS_NDVI", <<"NDVI">>)>>,
                      "request_type" :> "points"),
        <<OutputData("MODIS_NDVI", 0)>> >> }

NewCall(args) ==
    [pc |-> "start", request |-> args[1], req_data |-> args[2],
     tmp_fname |-> "", fout_paths |-> <<>>, md_path |-> NoPath,
     zfname |-> "", zfile |-> <<>>, ret |-> "", exc |-> NoExc, msg |-> ""]

InitOutput ==
    /\ pc = "call" /\ op = "writeRequestedData"
    /\ NoDateArgs /\ NoRangeArgs /\ NoResult /\ NoRequest
    /\ fs_dirs = {} /\ fs_files = EmptyDict /\ fs_zips = EmptyDict
    /\ calls \in [Calls -> {NewCall(args) : args \in OutputArgs}]

At(p, place) ==
    op = "writeRequestedData" /\ p \in DOMAIN calls /\ calls[p].pc = place

\* The call raises: the exception leaves writeRequestedData.
Fails(p, e, m) ==
    calls' = [calls EXCEPT ![p].pc = "raised", ![p].exc = e, ![p].msg = m]

notOutput == <<parserVars, requestVars>>

\* Lines 162-170: the random name of the working directory and mkdir().
MakeTmpDir(p) ==
    /\ At(p, "start")
    /\ \E name \in RandomNames :
          IF name \in fs_dirs
          THEN /\ calls' = [calls EXCEPT ![p].pc = "raised",
                                         ![p].tmp_fname = name,
                                         ![p].exc = "FileExistsError"]
               /\ UNCHANGED fs_dirs
          ELSE /\ fs_dirs' = fs_dirs \cup {name}
               /\ calls' = [calls EXCEPT ![p].pc = "write_data",
                                         ![p].tmp_fname = name]
    /\ UNCHANGED <<fs_files, fs_zips, notOutput>>

\* The most files one writer produces.
MaxFiles == Len(ShapefileParts)

\* Lines 172-176: the raster or the point branch writes the data files.
WriteData(p) ==
    /\ At(p, "write_data")
    /\ \E quota \in 0..MaxFiles :
          LET c == calls[p]
              r == writeData(c.req_data, c.request, c.tmp_fname, quota,
                             DOMAIN fs_files)
          IN /\ fs_files' = [f \in SeqToSet(r.written) |-> File(DataContent(f), p)]
                                @@ fs_files
             /\ IF r.exc # NoExc
                THEN Fails(p, r.exc, r.msg)
                ELSE calls' = [calls EXCEPT ![p].pc = "write_md",
                                            ![p].fout_paths = r.fout_paths]
    /\ UNCHANGED <<fs_dirs, fs_zips, notOutput>>

\* Line 178: the sidecar, under a random name in the working directory.
WriteMetadata(p) ==
    /\ At(p, "write_md")
    /\ \E name \in RandomNames, ok \in BOOLEAN :
          LET c == calls[p]
              md_path == _writeMetadataFile(c.tmp_fname, name)
          IN IF ok
             THEN /\ fs_files' = (md_path :> File(c.request.metadata, p)) @@ fs_files
                  /\ calls' = [calls EXCEPT ![p].pc = "open_zip",
                                            ![p].md_path = md_path]
             ELSE /\ Fails(p, "OSError", "")
                  /\ UNCHANGED fs_files
    /\ UNCHANGED <<fs_dirs, fs_zips, notOutput>>

\* Lines 181-189: the random name of the archive and ZipFile(mode='w').
OpenZip(p) ==
    /\ At(p, "open_zip")
    /\ \E name \in RandomNames :
          /\ fs_zips' = setitem(fs_zips, name, ZipFile(fs_zips, name, p))
          /\ calls' = [calls EXCEPT ![p].pc = "zip_md", ![p].zfname = name]
    /\ UNCHANGED <<fs_dirs, fs_files, notOutput>>

\* zfile.write(path, arcname=arcname) by call p, or its failure.
ZipWrite(p, path, arcname, ok, next) ==
    LET c == calls[p] IN
    IF ok
    THEN /\ fs_zips' = [fs_zips EXCEPT ![c.zfname] = zipStore(@, c.zfile, p)]
         /\ calls' = [calls EXCEPT
                         ![p].pc = next,
                         ![p].zfile = Append(@, ZipInfo(arcname, fs_files[path].content))]
    ELSE /\ Fails(p, "OSError", "")
         /\ UNCHANGED fs_zips

\* Line 191: the sidecar goes in under the fixed name.
ZipMetadata(p) ==
    /\ At(p, "zip_md")
    /\ \E ok \in BOOLEAN :
          ZipWrite(p, calls[p].md_path, FileName(<<"metadata">>, ".json"), ok,
                   "zip_data")
    /\ UNCHANGED <<fs_dirs, fs_files, notOutput>>

\* Lines 193-194: one data file per turn of the loop, under its own name.
ZipData(p) ==
    /\ At(p, "zip_data")
    /\ LET c == calls[p]
           i == Len(c.zfile)   \* the sidecar and i - 1 data files are in
       IN IF c.fout_paths = Unbound
          THEN Fails(p, "UnboundLocalError", "fout_paths") /\ UNCHANGED fs_zips
          ELSE /\ i <= Len(c.fout_paths)
               /\ \E ok \in BOOLEAN :
                     ZipWrite(p, c.fout_paths[i], c.fout_paths[i].name, ok, "zip_data")
    /\ UNCHANGED <<fs_dirs, fs_files, notOutput>>

\* Lines 196-198: close() and the return of the archive's path.
CloseZip(p) ==
    /\ At(p, "zip_data")
    /\ LET c == calls[p] IN
       /\ c.fout_paths # Unbound
       /\ Len(c.zfile) > Len(c.fout_paths)
       /\ fs_zips' = [fs_zips EXCEPT ![c.zfname] = zipClose(@, c.zfile, p)]
       /\ calls' = [calls EXCEPT ![p].pc = "returned", ![p].ret = c.zfname]
    /\ UNCHANGED <<fs_dirs, fs_files, notOutput>>

NextOutput ==
    \E p \in Calls :
        \/ MakeTmpDir(p)
        \/ WriteData(p)
        \/ WriteMetadata(p)
        \/ OpenZip(p)
        \/ ZipMetadata(p)
        \/ ZipData(p)
        \/ CloseZip(p)

SpecOutput == InitOutput /\ [][NextOutput]_vars

-----------------------------------------------------------------------------
(* Properties of writeRequestedData.                                       *)

Returned(p) == calls[p].pc = "returned"

Raised(p) == calls[p].pc = "raised"

\* The call was refused a name that is taken.
CollisionReported(p) == Raised(p) /\ calls[p].exc = "FileExistsError"

SameTmpName(p, q) ==
    calls[p].tmp_fname # "" /\ calls[p].tmp_fname = calls[q].tmp_fname

SameZipName(p, q) ==
    calls[p].zfname # "" /\ calls[p].zfname = calls[q].zfname

\* The calls that made, and so own, the working directory "name".
OwnersOf(name) ==
    {p \in Calls : calls[p].tmp_fname = name /\ ~CollisionReported(p)}

\* C16: when two calls on one output directory draw the same name for the
\* working directory or for the archive, at least one of them is refused
\* with an error, and nothing one call wrote is overwritten or used by the
\* other: a working directory has one owner, who wrote every file in it,
\* and an archive was opened for writing by one call only.
C16_CollisionsAreFatal ==
    /\ \A p, q \in Calls :
          (p # q /\ (SameTmpName(p, q) \/ SameZipName(p, q)))
              => (CollisionReported(p) \/ CollisionReported(q))
    /\ \A d \in fs_dirs : Cardinality(OwnersOf(d)) = 1
    /\ \A f \in DOMAIN fs_files : OwnersOf(f.dir) = {fs_files[f].by}
    /\ \A z \in DOMAIN fs_zips : Cardinality(fs_zips[z].writers) = 1

\* The part of C16 about the working directory alone.
TmpDirsAreExclusive ==
    /\ \A p, q \in Calls :
          (p # q /\ SameTmpName(p, q))
              => (CollisionReported(p) \/ CollisionReported(q))
    /\ \A d \in fs_dirs : Cardinality(OwnersOf(d)) = 1
    /\ \A f \in DOMAIN fs_files : OwnersOf(f.dir) = {fs_files[f].by}


\* The number of data files the branch of the request writes for its data.
RECURSIVE SumLayers(_)
SumLayers(d) == IF d = <<>> THEN 0 ELSE Head(d).layers + SumLayers(Tail(d))

ExpectedFiles(c) ==
    IF c.request.request_type = REQ_RASTER
    THEN IF c.request.file_extension = ".tif"
         THEN SumLayers(c.req_data)
         ELSE Len(c.req_data)
    ELSE IF c.request.file_extension = ".shp"
         THEN Len(ShapefileParts)
         ELSE 1

\* Every data file and the sidecar are on disk and in the handle of the
\* call, the sidecar first, and the call has closed its archive.
AllPackaged(p) ==
    LET c == calls[p] IN
    /\ Len(c.fout_paths) = ExpectedFiles(c)
    /\ \A i \in 1..Len(c.fout_paths) : c.fout_paths[i] \in DOMAIN fs_files
    /\ c.md_path \in DOMAIN fs_files
    /\ Len(c.zfile) = 1 + Len(c.fout_paths)
    /\ \A i \in 1..Len(c.fout_paths) :
          c.zfile[i + 1].filename = c.fout_paths[i].name
    /\ c.zfname \in DOMAIN fs_zips /\ p \in fs_zips[c.zfname].closed_by

\* C17: writeRequestedData has no partial success.  A call that raised is
\* over: it takes no further step, so nothing is retried, it holds an
\* exception and no archive path.  A call holds an archive path only once
\* it has returned, and then every data file of the request and the sidecar
\* are in the archive it closed.
C17_NoPartialSuccess ==
    [][\A p \in Calls :
          /\ Raised(p) => calls'[p] = calls[p]
          /\ Raised(p)' => (calls'[p].exc # NoExc /\ calls'[p].ret = "")
          /\ calls'[p].exc # NoExc => Raised(p)'
          /\ calls'[p].ret # "" => (Returned(p)' /\ AllPackaged(p)')
          /\ Returned(p)' => calls'[p].ret = calls'[p].zfname]_vars

\* One call failed on an archive entry after the sidecar was in, the other
\* returned the archive of a shapefile.
C17_Witness ==
    \E p, q \in Calls :
        /\ Raised(p) /\ calls[p].exc = "OSError" /\ Len(calls[p].zfile) = 2
        /\ Len(calls[p].fout_paths) = 2 /\ calls[p].ret = ""
        /\ Returned(q) /\ calls[q].request.file_extension = ".shp"


MetadataArcname == FileName(<<"metadata">>, ".json")

EntriesNamed(filelist, name) ==
    {i \in 1..Len(filelist) : filelist[i].filename = name}

\* The archive the call returned, as it is in output_dir: one entry
\* metadata.json holding the metadata of the request, one entry per data
\* file under the name of the file, nothing else, the name of the sidecar on
\* disk not among them, and the entries as the call stored them.
ArchiveAsClaimed(p) ==
    LET c == calls[p]
        a == fs_zips[c.ret]
        datanames == {c.fout_paths[i].name : i \in 1..Len(c.fout_paths)}
    IN
    /\ Len(c.fout_paths) = ExpectedFiles(c)
    /\ Cardinality(EntriesNamed(a.filelist, MetadataArcname)) = 1
    /\ \A i \in EntriesNamed(a.filelist, MetadataArcname) :
          a.filelist[i].content = c.request.metadata
    /\ \A n \in datanames : Cardinality(EntriesNamed(a.filelist, n)) = 1
    /\ Len(a.filelist) = 1 + Len(c.fout_paths)
    /\ \A i \in 1..Len(a.filelist) :
          /\ a.filelist[i].filename \in datanames \cup {MetadataArcname}
          /\ a.filelist[i].filename # c.md_path.name
    /\ p \notin a.damaged

Returns(p) == ~Returned(p) /\ Returned(p)'

\* C18: when a call returns, the archive it returns holds exactly one entry
\* metadata.json with the metadata document of the request and exactly one
\* entry per data file of the request under the file's base name, no other
\* entry, and no entry under the random name of the sidecar.
C18_ArchiveContents ==
    [][\A p \in Calls : Returns(p) => ArchiveAsClaimed(p)']_vars

\* The same for the calls whose archive no other call has opened.
ArchiveOfOneWriter ==
    [][\A p \in Calls :
          (Returns(p) /\ fs_zips'[calls'[p].ret].writers = {p})
              => ArchiveAsClaimed(p)']_vars

-----------------------------------------------------------------------------
(* A constructed DataRequest handed to writeRequestedData: the request is  *)
(* the object __init__ built, the data is what the backends produced for   *)
(* the datasets of the request.                                            *)

\* The arguments of the constructions whose requests are written: every
\* request type with every output format.
InitRequestToWrite ==
    /\ pc = "call" /\ op = "__init__"
    /\ date_start = fmt(2019, 4) /\ date_end = fmt(2020, 4)
    /\ years = NoneStr /\ months = NoneStr /\ days = NoneStr
    /\ dsc = DatasetCatalog
    /\ dsvars \in { <<dsvar("PRISM", <<"ppt">>)>>,
                    <<dsvar("PRISM", <<"ppt", "tmax">>), dsvar("ELEVATION", <<"elev">>)>> }
    /\ grain_method \in {NoneName, "exact"}
    /\ subset_geom \in GeomArgs
    /\ target_crs = "EPSG:4326"
    /\ target_resolution = 1000
    /\ ri_method \in {NoneName, "linear", "mean"}
    /\ request_type \in RequestTypeArgs
    /\ output_format \in FormatArgs
    /\ req_metadata = ("user" :> "jdoe")
    /\ self = EmptyDict /\ md_queries = <<>> /\ built = <<>>
    /\ NoRangeArgs /\ NoResult /\ NoOutput

\* The most layers the backends produce for a raster dataset.
MaxLayers == 1

\* writeRequestedData(request, req_data, output_dir) on the request just
\* constructed; output_dir is empty.
CallWriteRequestedData ==
    /\ Constructing("returned")
    /\ op' = "writeRequestedData"
    /\ \E layers \in 0..MaxLayers :
          calls' = (1 :> NewCall(<<self,
                                   [i \in 1..Len(dsvars) |->
                                       OutputData(dsvars[i].dsid, layers)]>>))
    /\ fs_dirs' = {} /\ fs_files' = EmptyDict /\ fs_zips' = EmptyDict
    /\ UNCHANGED <<pc, date_start, date_end, years, months, days, dates,
                   date_grain, legacy, rangestr, maxval, rangeval, exc, msg,
                   requestVars>>

NextRequestToWrite ==
    \/ InitParseDatesStep \/ CheckRequestType \/ CheckMethod \/ CheckPointGeom
    \/ GetMetadata \/ CheckGrainMethod \/ VerifyGrains \/ CheckOutputFormat
    \/ SetFileExtension
    \/ CallWriteRequestedData
    \/ NextOutput

SpecRequestToWrite == InitRequestToWrite /\ [][NextRequestToWrite]_vars

-----------------------------------------------------------------------------
(* Properties of writing a constructed request.                            *)

\* The extensions the branch of a request type has a writer for.
WriterBranches(rt) ==
    IF rt = REQ_RASTER THEN {".tif", ".nc"}
    ELSE IF rt = REQ_POINT THEN {".csv", ".shp", ".nc"}
    ELSE {}

UnsupportedFormatErrors ==
    {"Unsupported raster output format.", "Unsupported point output format."}

Packaging(c) == c.pc \in {"write_md", "open_zip", "zip_md", "zip_data", "returned"}

\* C21: the format table and the branches of the assembler agree.  The
\* file extension of every constructed DataRequest is one its request type
\* has a writer branch for, so no call on a constructed request raises an
\* 'Unsupported ... output format' error, and once the call is past the
\* branches its list of produced files is bound.
C21_FormatTableAgreesWithBranches ==
    /\ Constructed => self.file_extension \in WriterBranches(self.request_type)
    /\ \A p \in DOMAIN calls :
          /\ calls[p].request.file_extension
                 \in WriterBranches(calls[p].request.request_type)
          /\ calls[p].msg \notin UnsupportedFormatErrors
          /\ calls[p].exc # "UnboundLocalError"
          /\ Packaging(calls[p]) => calls[p].fout_paths # Unbound

\* A POINT request constructed for 'shapefile' is past the point branch
\* with the three files of the shapefile.
C21_Witness ==
    /\ op = "writeRequestedData" /\ output_format = "shapefile"
    /\ request_type = REQ_POINT
    /\ 1 \in DOMAIN calls /\ calls[1].pc = "write_md"
    /\ calls[1].request.file_extension = ".shp"
    /\ Len(calls[1].fout_paths) = Len(ShapefileParts)

-----------------------------------------------------------------------------
(* The path _parseDates takes.                                             *)

DatesDone == op = "_parseDates" /\ pc \in {"returned", "raised"}

\* What a call came to: a result, or an exception and its message.
OutcomeOf(r) == <<r.exc, r.msg, r.dates, r.date_grain>>

DatesOutcome == <<exc, msg, dates, date_grain>>

\* The call came to what the simple-range path comes to for its dates.
SimplePathOutcome ==
    DatesOutcome = OutcomeOf(_parseSimpleDateRange(date_start, date_end))

\* Whatever years, months and days are given with these dates, the call
\* comes to the same.
YMDHaveNoEffect ==
    \A ys \in YearsArgs, ms \in MonthsArgs, dys \in DaysArgs :
        OutcomeOf(_parseDates(date_start, date_end, ys, ms, dys)) = DatesOutcome

NoYMD == isBlank(years) /\ isBlank(months) /\ isBlank(days)

BothMissing ==
    exc = "ValueError" /\ msg = "Start and end dates must both be specified."

\* Exactly one of date_start, date_end is given.
OnlyOneDate == isBlank(date_start) # isBlank(date_end)

\* Outside the combinatorial path a call comes to the empty selection or to
\* what the simple-range path comes to.
NotCombinatorial ==
    \/ DatesOutcome = OutcomeOf(Return(<<>>, NONE))
    \/ SimplePathOutcome

CombinatorialOnlyWithoutDates ==
    ~(date_start = NoneStr /\ date_end = NoneStr /\ ~NoYMD) => NotCombinatorial

\* C22 as stated: whenever date_start or date_end is not None, an empty
\* string included, the simple-range path is taken and years, months and
\* days have no effect on the outcome; with only one of the two given the
\* call fails with 'Start and end dates must both be specified.' even when
\* years is given; the combinatorial path is taken only when both are None
\* and one of years, months, days is not empty.
C22_AsStated ==
    DatesDone =>
        /\ (date_start # NoneStr \/ date_end # NoneStr)
               => (SimplePathOutcome /\ YMDHaveNoEffect)
        /\ OnlyOneDate => BothMissing
        /\ CombinatorialOnlyWithoutDates

\* C22: whenever date_start or date_end is a non-empty string, the
\* simple-range path is taken and years, months and days have no effect on
\* the outcome.  When both are None or empty and one of them is an empty
\* string, years, months and days decide: with all three None or empty the
\* call returns the empty selection with grain NONE, otherwise the
\* simple-range path is taken and fails with 'Start and end dates must both
\* be specified.'.  With only one of the two given the call fails with that
\* message even when years is given, and the combinatorial path is taken
\* only when both are None and one of years, months, days is not empty.
C22_PathSelection ==
    DatesDone =>
        /\ (~isBlank(date_start) \/ ~isBlank(date_end))
               => (SimplePathOutcome /\ YMDHaveNoEffect)
        /\ (isBlank(date_start) /\ isBlank(date_end)
                /\ (date_start # NoneStr \/ date_end # NoneStr))
               => IF NoYMD
                  THEN DatesOutcome = OutcomeOf(Return(<<>>, NONE))
                  ELSE SimplePathOutcome /\ BothMissing
        /\ OnlyOneDate => BothMissing
        /\ CombinatorialOnlyWithoutDates

\* Only date_start is given, with years: the call failed on the missing
\* end date.
C22_Witness ==
    /\ DatesDone /\ pc = "raised" /\ BothMissing
    /\ date_start = fmt(2019, 4) /\ date_end = NoneStr
    /\ years = rangeExpr(2019, 2020)

====
